---- MODULE Spec2Model ----
(***************************************************************************)
(* A model of the status-page server's handlers (server/src/handlers) over *)
(* the relational store declared in server/src/db/schema.ts.               *)
(*                                                                         *)
(* Every table is a set of rows (records).  A handler is one action: the   *)
(* statements it sends to the store, in order, with the early returns and  *)
(* the errors of the code.  A nullable column holds <<>> (SQL NULL) or     *)
(* <<v>>.  `last` is what the last call returned to its caller.            *)
(***************************************************************************)
EXTENDS Integers, FiniteSets, Sequences, TLC

VARIABLES
    users,                            \* usersTable: set of ids
    organizations,                    \* organizationsTable
    organization_members,             \* organizationMembersTable
    status_pages,                     \* statusPagesTable
    components,                       \* componentsTable
    incidents,                        \* incidentsTable
    incident_updates,                 \* incidentUpdatesTable
    maintenance_windows,              \* maintenanceWindowsTable
    incident_affected_components,     \* incidentAffectedComponentsTable
    maintenance_affected_components,  \* maintenanceAffectedComponentsTable
    nextId,                           \* the serial sequence of each table
    now,                              \* the wall clock, in milliseconds
    last,                             \* outcome of the last handler call
    inflight                          \* requests between two of their statements

tables == <<users, organizations, organization_members, status_pages, components,
            incidents, incident_updates, maintenance_windows,
            incident_affected_components, maintenance_affected_components>>

vars == <<users, organizations, organization_members, status_pages, components,
          incidents, incident_updates, maintenance_windows,
          incident_affected_components, maintenance_affected_components,
          nextId, now, last, inflight>>

----------------------------------------------------------------------------
\* Bounds of the model.

\* Users seeded in the quota specification.
NumUsers == 52

\* Rows an unlimited (enterprise) parent is filled with before the model stops.
MaxRows == 8

\* Last reading of the clock.
MaxTime == 2

\* Rows per table in the incident specification.
MaxIncidents == 1
MaxIncidentUpdates == 2

\* Rows per table in the clocked incident specification.
MaxTimedIncidents == 1
MaxTimedUpdates == 2

\* Rows of each kind ever inserted in the deletion specification (a page whose
\* deletion throws can be filled and emptied again without end).
MaxPageIncidents == 2
MaxPageUpdates == 1
MaxPageWindows == 1

\* Maintenance windows ever inserted in the window specification.
MaxWindows == 2

\* Requests the server processes at the same time.
MaxInflight == 2

\* Rows per table in the parent specification.
MaxParentRows == 3

\* Rows created after a delete, per table, in the refill specification.
MaxRefills == 2

----------------------------------------------------------------------------
\* Values.

Null == <<>>
Date(t) == <<t>>
Text(s) == <<s>>

planTypeEnum == {"free", "pro", "plus", "enterprise"}
incidentStatusEnum == {"investigating", "identified", "monitoring", "resolved"}
maintenanceStatusEnum == {"scheduled", "in_progress", "completed", "cancelled"}

\* An id that names no row, as the test suites use it.
UnknownId == 99999

\* JS Infinity, and a finite limit n, as the plan tables hold them.
Infinity == <<>>
Limit(n) == <<n>>

\* An off-by-one reading of the comparison below.
AtLeastStrict(count, limit) == limit # Infinity /\ count > limit[1]

\* JS `count >= limit`.
AtLeast(count, limit) == limit # Infinity /\ count >= limit[1]

Ok(op, id) == [op |-> op, ok |-> TRUE, err |-> "", id |-> id]
Err(op, id, err) == [op |-> op, ok |-> FALSE, err |-> err, id |-> id]

Bump(table) == [nextId EXCEPT ![table] = @ + 1]

\* A quota message that names neither the plan nor the limit.
QuotaExceededBare(op, id, err, plan_type, limit) == Err(op, id, err)

\* The quota messages interpolate ${plan_type} and ${limit}.
QuotaExceeded(op, id, err, plan_type, limit) ==
    Err(op, id, err) @@ [plan |-> plan_type, limit |-> limit[1]]

\* A patch is a record holding the fields the caller supplied: a field left out
\* is JS `undefined`.
Has(rec, field) == field \in DOMAIN rec

Set(rec, field, value) ==
    [k \in DOMAIN rec \cup {field} |-> IF k = field THEN value ELSE rec[k]]

NoFields == [k \in {} |-> Null]

\* UPDATE ... SET updateData on one row.
ApplyUpdate(row, updateData) ==
    [k \in DOMAIN row |-> IF Has(updateData, k) THEN updateData[k] ELSE row[k]]

\* The ways a patch can carry a field: left out, or given one of `values`.
Field(name, values) == {NoFields} \cup {[k \in {name} |-> v] : v \in values}

\* A not-found that is thrown instead of returned.
ThrowsNotFound(op, id) == [op |-> op, ok |-> FALSE, err |-> "not found", id |-> id]

\* `return false` of a delete handler: not ok, and no error thrown.
ReturnsFalse(op, id) == [op |-> op, ok |-> FALSE, err |-> "", id |-> id]

\* A request slot of the server: idle, or a handler suspended at an `await`
\* after its reads and before its insert.
Idle == [op |-> "idle"]
NoRequests == [slot \in 1 .. MaxInflight |-> Idle]
Suspended(slot, op, input) == [inflight EXCEPT ![slot] = [op |-> op, input |-> input]]
Resumed(slot) == [inflight EXCEPT ![slot] = Idle]

----------------------------------------------------------------------------
\* createStatusPage

statusPageLimits ==
    [free |-> Limit(1), pro |-> Limit(3), plus |-> Limit(12), enterprise |-> Limit(100)]

StatusPageCount(organization_id) ==
    Cardinality({p \in status_pages : p.organization_id = organization_id})

createStatusPage(input) ==
    LET organization == {o \in organizations : o.id = input.organization_id}
    IN  /\ IF organization = {}
           THEN /\ last' = Err("createStatusPage", input.organization_id, "Organization not found")
                /\ UNCHANGED <<status_pages, nextId>>
           ELSE LET org == CHOOSE o \in organization : TRUE
                    currentCount == StatusPageCount(input.organization_id)
                    limit == statusPageLimits[org.plan_type]
                IN  IF AtLeast(currentCount, limit)
                    THEN /\ last' = QuotaExceeded("createStatusPage", input.organization_id,
                                               "Plan limit exceeded", org.plan_type, limit)
                         /\ UNCHANGED <<status_pages, nextId>>
                    ELSE /\ status_pages' = status_pages \cup
                                {[id |-> nextId.status_pages,
                                  organization_id |-> input.organization_id,
                                  name |-> input.name,
                                  description |-> input.description,
                                  updated_at |-> now]}
                         /\ nextId' = Bump("status_pages")
                         /\ last' = Ok("createStatusPage", nextId.status_pages)
        /\ UNCHANGED <<inflight, users, organizations, organization_members, components, incidents,
                       incident_updates, maintenance_windows,
                       incident_affected_components, maintenance_affected_components, now>>

----------------------------------------------------------------------------
\* createComponent

\* The component table with the enterprise entry capped like the free one.
componentLimitsCapped ==
    [free |-> Limit(7), pro |-> Limit(36), plus |-> Limit(60), enterprise |-> Limit(7)]

componentLimits ==
    [free |-> Limit(7), pro |-> Limit(36), plus |-> Limit(60), enterprise |-> Infinity]

\* A cumulative count: every component the sequence ever numbered, deleted or not.
ComponentCountEver(status_page_id) == nextId.components - 1

ComponentCount(status_page_id) ==
    Cardinality({c \in components : c.status_page_id = status_page_id})

\* The inner join of status_pages and organizations on the page's organization.
StatusPagePlan(status_page_id) ==
    {o.plan_type : o \in {o \in organizations :
        \E p \in status_pages : p.id = status_page_id /\ p.organization_id = o.id}}

createComponent(input) ==
    LET statusPageResult == StatusPagePlan(input.status_page_id)
    IN  /\ IF statusPageResult = {}
           THEN /\ last' = Err("createComponent", input.status_page_id, "Status page not found")
                /\ UNCHANGED <<components, nextId>>
           ELSE LET plan_type == CHOOSE t \in statusPageResult : TRUE
                    currentComponentCount == ComponentCount(input.status_page_id)
                    limit == componentLimits[plan_type]
                IN  IF AtLeast(currentComponentCount, limit)
                    THEN /\ last' = QuotaExceeded("createComponent", input.status_page_id,
                                               "Component limit exceeded", plan_type, limit)
                         /\ UNCHANGED <<components, nextId>>
                    ELSE /\ components' = components \cup
                                {[id |-> nextId.components,
                                  status_page_id |-> input.status_page_id,
                                  name |-> input.name,
                                  description |-> input.description,
                                  updated_at |-> now]}
                         /\ nextId' = Bump("components")
                         /\ last' = Ok("createComponent", nextId.components)
        /\ UNCHANGED <<inflight, users, organizations, organization_members, status_pages, incidents,
                       incident_updates, maintenance_windows,
                       incident_affected_components, maintenance_affected_components, now>>

----------------------------------------------------------------------------
\* addOrganizationMember

memberLimits ==
    [free |-> Limit(7), pro |-> Limit(35), plus |-> Limit(50), enterprise |-> Infinity]

MemberCount(organizationId) ==
    Cardinality({m \in organization_members : m.organization_id = organizationId})

IsMember(organizationId, userId) ==
    \E m \in organization_members :
        m.organization_id = organizationId /\ m.user_id = userId

addOrganizationMember(organizationId, userId) ==
    LET orgs == {o \in organizations : o.id = organizationId}
        fail(err) == /\ last' = Err("addOrganizationMember", organizationId, err)
                     /\ UNCHANGED <<organization_members, nextId>>
    IN  /\ IF orgs = {}
           THEN fail("Organization not found")
           ELSE IF userId \notin users
           THEN fail("User not found")
           ELSE IF IsMember(organizationId, userId)
           THEN fail("User is already a member of this organization")
           ELSE LET organization == CHOOSE o \in orgs : TRUE
                    currentMemberCount == MemberCount(organizationId)
                    limit == memberLimits[organization.plan_type]
                IN  IF AtLeast(currentMemberCount, limit)
                    THEN /\ last' = QuotaExceeded("addOrganizationMember", organizationId,
                                               "Organization has reached the member limit",
                                               organization.plan_type, limit)
                         /\ UNCHANGED <<organization_members, nextId>>
                    ELSE /\ organization_members' = organization_members \cup
                                {[id |-> nextId.organization_members,
                                  organization_id |-> organizationId,
                                  user_id |-> userId]}
                         /\ nextId' = Bump("organization_members")
                         /\ last' = Ok("addOrganizationMember", nextId.organization_members)
        /\ UNCHANGED <<inflight, users, organizations, status_pages, components, incidents,
                       incident_updates, maintenance_windows,
                       incident_affected_components, maintenance_affected_components, now>>

----------------------------------------------------------------------------
\* The quota specification: the three quota-bound creates, called one at a time
\* on organization 1, whose plan is any of the limited ones.  Organization 2 is a
\* sibling tenant that already holds a status page, a component and a member.

FirstIds ==
    [organizations |-> 1, organization_members |-> 1, status_pages |-> 1, components |-> 1, incidents |-> 1,
     incident_updates |-> 1, maintenance_windows |-> 1,
     incident_affected_components |-> 1, maintenance_affected_components |-> 1]

\* Rows as the test suites insert them before the handler under test runs.
OrganizationFixture(id, plan_type, owner_id) ==
    [id |-> id, slug |-> IF id = 1 THEN "test-org" ELSE "other-org",
     plan_type |-> plan_type, owner_id |-> owner_id]

StatusPageFixture(id, organization_id) ==
    [id |-> id, organization_id |-> organization_id, name |-> "Test Status Page",
     description |-> Null, updated_at |-> 0]

ComponentFixture(id, status_page_id) ==
    [id |-> id, status_page_id |-> status_page_id, name |-> "Database",
     description |-> Null, updated_at |-> 0]

InitTenants(plans) ==
    /\ users = 1 .. NumUsers
    /\ \E plan \in plans :
         organizations = {OrganizationFixture(1, plan, 1),
                          OrganizationFixture(2, "free", NumUsers)}
    /\ organization_members = {[id |-> 1, organization_id |-> 2, user_id |-> NumUsers]}
    /\ status_pages = {StatusPageFixture(1, 2)}
    /\ components = {ComponentFixture(1, 1)}
    /\ incidents = {}
    /\ incident_updates = {}
    /\ maintenance_windows = {}
    /\ incident_affected_components = {}
    /\ maintenance_affected_components = {}
    /\ nextId = [FirstIds EXCEPT !.organizations = 3, !.organization_members = 2,
                                 !.status_pages = 2,
                                 !.components = 2]
    /\ now = 0
    /\ last = Ok("init", 0)
    /\ inflight = NoRequests

InitQuota == InitTenants({"free", "pro", "plus"})

\* Users are interchangeable: a request names the lowest-numbered user who is not
\* yet a member, or user 1 once a member.
MemberCandidates(organizationId) ==
    LET free == {u \in users : ~IsMember(organizationId, u)}
        lowest == {u \in free : \A v \in free : u <= v}
    IN  lowest \cup {u \in {1} : IsMember(organizationId, u)}

\* The first status page of organization 1, or an id of no page before it exists.
FirstPage ==
    LET own == {p.id : p \in {q \in status_pages : q.organization_id = 1}}
    IN  IF own = {} THEN UnknownId ELSE CHOOSE i \in own : \A j \in own : i <= j

createStatusPageCall ==
    createStatusPage([organization_id |-> 1, name |-> "Test Status Page",
                      description |-> Null])
createComponentCall ==
    createComponent([status_page_id |-> FirstPage, name |-> "Database",
                     description |-> Null])
addOrganizationMemberCall == \E u \in MemberCandidates(1) : addOrganizationMember(1, u)

NextQuota ==
    \/ createStatusPageCall
    \/ createComponentCall
    \/ addOrganizationMemberCall

SpecQuota == InitQuota /\ [][NextQuota]_vars

\* The same calls on an enterprise organization, stopped at MaxRows components
\* and members (its status pages stop by themselves).
InitEnterprise == InitTenants({"enterprise"})

NextEnterprise ==
    \/ createStatusPageCall
    \/ ComponentCount(FirstPage) < MaxRows /\ createComponentCall
    \/ MemberCount(1) < MaxRows /\ addOrganizationMemberCall

SpecEnterprise == InitEnterprise /\ [][NextEnterprise]_vars

----------------------------------------------------------------------------
\* Properties of the quota-bound creates.

OrgPlan(organizationId) ==
    (CHOOSE o \in organizations : o.id = organizationId).plan_type

QuotaErrors ==
    {"Plan limit exceeded", "Component limit exceeded",
     "Organization has reached the member limit"}

\* The limits the specification states, per plan and resource kind.
SpecLimit ==
    [free |-> [status_pages |-> 1, components |-> 7, members |-> 7],
     pro  |-> [status_pages |-> 3, components |-> 36, members |-> 35],
     plus |-> [status_pages |-> 12, components |-> 60, members |-> 50]]

\* One create under a parent holding `count` rows, `countAfter` after the call.
QuotaStep(count, countAfter, limit) ==
    /\ count <= limit
    /\ count < limit => last'.ok /\ countAfter = count + 1
    /\ count = limit => ~last'.ok /\ last'.err \in QuotaErrors /\ countAfter = count

\* C1: with requests one at a time, on a free, pro or plus organization, a create
\* of a status page, a component or a member (of a user who is not one yet)
\* succeeds when the parent holds fewer rows than the plan's limit and fails with
\* a quota error when it holds exactly the limit.
C1_QuotaBoundary ==
    [][LET limit == SpecLimit[OrgPlan(1)]
       IN  /\ (last'.op = "createStatusPage" /\ createStatusPageCall) =>
                QuotaStep(StatusPageCount(1), StatusPageCount(1)', limit.status_pages)
           /\ (/\ last'.op = "createComponent"
               /\ \E p \in status_pages : p.id = FirstPage
               /\ createComponentCall) =>
                QuotaStep(ComponentCount(FirstPage), ComponentCount(FirstPage)',
                          limit.components)
           /\ last'.op = "addOrganizationMember" =>
                \A u \in MemberCandidates(1) :
                    (~IsMember(1, u) /\ addOrganizationMember(1, u)) =>
                        QuotaStep(MemberCount(1), MemberCount(1)', limit.members)
      ]_vars

\* A plus organization at all three limits whose last create was refused.
C1_Witness ==
    /\ OrgPlan(1) = "plus"
    /\ StatusPageCount(1) = 12
    /\ ComponentCount(FirstPage) = 60
    /\ MemberCount(1) = 50
    /\ ~last.ok /\ last.err \in QuotaErrors

----------------------------------------------------------------------------
\* Rows and foreign keys.

Ids(table) == {r.id : r \in table}
Row(table, id) == CHOOSE r \in table : r.id = id

ForeignKeyViolation == "violates foreign key constraint"

----------------------------------------------------------------------------
\* createIncident

\* The junction rows one insert statement adds for `ids`, numbered from `first`.
\* A junction insert that keeps the first id of the list only.
AffectedRowsFirst(parent, parentId, ids, first) ==
    {[r \in {parent, "component_id", "id"} |->
        IF r = parent THEN parentId
        ELSE IF r = "id" THEN first + k - 1
        ELSE ids[k]] : k \in 1 .. (IF Len(ids) = 0 THEN 0 ELSE 1)}

AffectedRows(parent, parentId, ids, first) ==
    {[r \in {parent, "component_id", "id"} |->
        IF r = parent THEN parentId
        ELSE IF r = "id" THEN first + k - 1
        ELSE ids[k]] : k \in 1 .. Len(ids)}

\* createIncident on a schema whose incidents reference no page and no user.
createIncidentUnreferenced(input) ==
    /\ incidents' = incidents \cup
           {[id |-> nextId.incidents,
             status_page_id |-> input.status_page_id,
             title |-> input.title,
             status |-> input.status,
             created_by |-> input.created_by,
             updated_at |-> now,
             resolved_at |-> Null]}
    /\ nextId' = Bump("incidents")
    /\ last' = Ok("createIncident", nextId.incidents)
    /\ UNCHANGED <<inflight, users, organizations, organization_members, status_pages, components,
                   incident_updates, maintenance_windows, incident_affected_components,
                   maintenance_affected_components, now>>

createIncident(input) ==
    LET id == nextId.incidents
        incident == [id |-> id,
                     status_page_id |-> input.status_page_id,
                     title |-> input.title,
                     status |-> input.status,
                     created_by |-> input.created_by,
                     updated_at |-> now,
                     resolved_at |-> Null]
        ids == input.affected_component_ids
    IN  /\ IF input.status_page_id \notin Ids(status_pages) \/ input.created_by \notin users
           THEN /\ last' = Err("createIncident", UnknownId, ForeignKeyViolation)
                /\ UNCHANGED <<incidents, incident_affected_components, nextId>>
           ELSE /\ incidents' = incidents \cup {incident}
                /\ IF Len(ids) = 0
                   THEN /\ last' = Ok("createIncident", id)
                        /\ nextId' = Bump("incidents")
                        /\ UNCHANGED incident_affected_components
                   ELSE IF \E k \in 1 .. Len(ids) : ids[k] \notin Ids(components)
                   THEN /\ last' = Err("createIncident", id, ForeignKeyViolation)
                        /\ nextId' = Bump("incidents")
                        /\ UNCHANGED incident_affected_components
                   ELSE /\ incident_affected_components' = incident_affected_components \cup
                                AffectedRows("incident_id", id, ids,
                                             nextId.incident_affected_components)
                        /\ nextId' = [nextId EXCEPT
                                        !.incidents = @ + 1,
                                        !.incident_affected_components = @ + Len(ids)]
                        /\ last' = Ok("createIncident", id)
        /\ UNCHANGED <<inflight, users, organizations, organization_members, status_pages, components,
                       incident_updates, maintenance_windows,
                       maintenance_affected_components, now>>

----------------------------------------------------------------------------
\* updateIncident

\* resolved_at as updateIncident derives it from a status in the patch.
ResolvedAtOnPatch(status, old, t) == IF status = "resolved" THEN Date(t) ELSE Null

UpdateValues(input) ==
    LET copied == [k \in DOMAIN input \cap {"title", "status"} |-> input[k]]
                    @@ [updated_at |-> now]
    IN  IF Has(input, "status")
        THEN Set(copied, "resolved_at", ResolvedAtOnPatch(input.status, Null, now))
        ELSE copied

updateIncident(input) ==
    /\ IF input.id \in Ids(incidents)
       THEN /\ incidents' = {IF i.id = input.id THEN ApplyUpdate(i, UpdateValues(input))
                                                ELSE i : i \in incidents}
            /\ last' = Ok("updateIncident", input.id)
       ELSE /\ last' = Err("updateIncident", input.id, "Incident not found")
            /\ UNCHANGED incidents
    /\ UNCHANGED <<inflight, users, organizations, organization_members, status_pages, components,
                   incident_updates, maintenance_windows, incident_affected_components,
                   maintenance_affected_components, nextId, now>>

----------------------------------------------------------------------------
\* createIncidentUpdate

\* The parent incident as the transaction's UPDATE statement leaves it.
ParentAfterUpdate(i, input) ==
    [i EXCEPT !.status = input.status,
              !.updated_at = now,
              !.resolved_at = IF input.status = "resolved" THEN Date(now) ELSE @]

\* The handler without its transaction, the parent written first.
createIncidentUpdateUnguarded(input) ==
    /\ incidents' = {IF i.id = input.incident_id THEN ParentAfterUpdate(i, input) ELSE i :
                        i \in incidents}
    /\ IF input.incident_id \in Ids(incidents) /\ input.created_by \in users
       THEN /\ incident_updates' = incident_updates \cup
                    {[id |-> nextId.incident_updates, incident_id |-> input.incident_id,
                      status |-> input.status, created_by |-> input.created_by,
                      created_at |-> now]}
            /\ nextId' = Bump("incident_updates")
            /\ last' = Ok("createIncidentUpdate", nextId.incident_updates)
       ELSE /\ last' = Err("createIncidentUpdate", input.incident_id, ForeignKeyViolation)
            /\ UNCHANGED <<incident_updates, nextId>>
    /\ UNCHANGED <<inflight, users, organizations, organization_members, status_pages, components,
                   maintenance_windows, incident_affected_components,
                   maintenance_affected_components, now>>

\* An upsert: the new row takes the place of the incident's earlier updates.
ReplaceUpdate(table, row) ==
    {r \in table : r.incident_id # row.incident_id} \cup {row}

\* tx.insert(incidentUpdatesTable).values(...)
InsertUpdate(table, row) == table \cup {row}

\* db.transaction: the statements run on the transaction's copy of the two tables;
\* the copy is committed when the callback returns and dropped when it throws.
createIncidentUpdate(input) ==
    LET tx0 == [incident_updates |-> incident_updates, incidents |-> incidents]
        inserted == input.incident_id \in Ids(tx0.incidents) /\ input.created_by \in users
        incidentUpdate == [id |-> nextId.incident_updates,
                           incident_id |-> input.incident_id,
                           status |-> input.status,
                           created_by |-> input.created_by,
                           created_at |-> now]
        tx1 == [tx0 EXCEPT !.incident_updates = InsertUpdate(@, incidentUpdate)]
        tx2 == [tx1 EXCEPT !.incidents =
                    {IF i.id = input.incident_id THEN ParentAfterUpdate(i, input) ELSE i :
                        i \in @}]
    IN  /\ IF inserted
           THEN /\ incident_updates' = tx2.incident_updates
                /\ incidents' = tx2.incidents
                /\ nextId' = Bump("incident_updates")
                /\ last' = Ok("createIncidentUpdate", incidentUpdate.id)
           ELSE /\ incident_updates' = tx0.incident_updates
                /\ incidents' = tx0.incidents
                /\ last' = Err("createIncidentUpdate", input.incident_id, ForeignKeyViolation)
                /\ UNCHANGED nextId
        /\ UNCHANGED <<inflight, users, organizations, organization_members, status_pages, components,
                       maintenance_windows, incident_affected_components,
                       maintenance_affected_components, now>>

----------------------------------------------------------------------------
\* The clock.  Nothing makes it advance between two calls, or between a call and
\* the row it reads: new Date() counts whole milliseconds.

Tick ==
    /\ now < MaxTime
    /\ now' = now + 1
    /\ UNCHANGED <<inflight, users, organizations, organization_members, status_pages, components,
                   incidents, incident_updates, maintenance_windows,
                   incident_affected_components, maintenance_affected_components,
                   nextId, last>>

----------------------------------------------------------------------------
\* The incident specifications: a pro organization with two status pages of one
\* component each, and the three incident handlers called one at a time.

InitPages ==
    /\ users = {1}
    /\ organizations = {OrganizationFixture(1, "pro", 1)}
    /\ organization_members = {}
    /\ status_pages = {StatusPageFixture(1, 1), StatusPageFixture(2, 1)}
    /\ components = {ComponentFixture(1, 1), ComponentFixture(2, 2)}
    /\ incidents = {}
    /\ incident_updates = {}
    /\ maintenance_windows = {}
    /\ incident_affected_components = {}
    /\ maintenance_affected_components = {}
    /\ nextId = [FirstIds EXCEPT !.organizations = 2, !.status_pages = 3,
                                 !.components = 3]
    /\ now = 0
    /\ last = Ok("init", 0)
    /\ inflight = NoRequests

IncidentInputs(statuses, affected) ==
    [status_page_id : {1, UnknownId}, title : {"Test Incident"}, status : statuses,
     created_by : {1}, affected_component_ids : affected]

IncidentPatches(statuses) ==
    {[id |-> i] @@ s : i \in Ids(incidents) \cup {UnknownId}, s \in Field("status", statuses)}

IncidentUpdateInputs(statuses) ==
    [incident_id : Ids(incidents) \cup {UnknownId}, status : statuses,
     created_by : {1, UnknownId}]

StatusInputs == {"investigating", "monitoring", "resolved"}

NextIncident ==
    \/ \E input \in IncidentInputs(StatusInputs, {<<>>, <<1>>, <<UnknownId>>}) :
         /\ Cardinality(incidents) < MaxIncidents
         /\ createIncident(input)
    \/ \E input \in IncidentPatches(StatusInputs) : updateIncident(input)
    \/ \E input \in IncidentUpdateInputs(StatusInputs) :
         /\ Cardinality(incident_updates) < MaxIncidentUpdates
         /\ createIncidentUpdate(input)

SpecIncident == InitPages /\ [][NextIncident]_vars

TimedStatusInputs == {"investigating", "resolved"}

NextTimedIncident ==
    \/ Tick
    \/ \E input \in IncidentInputs(TimedStatusInputs, {<<>>}) :
         /\ Cardinality(incidents) < MaxTimedIncidents
         /\ createIncident(input)
    \/ \E input \in IncidentPatches(TimedStatusInputs) : updateIncident(input)
    \/ \E input \in IncidentUpdateInputs(TimedStatusInputs) :
         /\ Cardinality(incident_updates) < MaxTimedUpdates
         /\ createIncidentUpdate(input)

SpecTimedIncident == InitPages /\ [][NextTimedIncident]_vars

----------------------------------------------------------------------------
\* Properties of the incident lifecycle.

\* C3: in every state reached by createIncident, updateIncident and
\* createIncidentUpdate calls, an incident's resolved_at is non-null exactly when
\* its status is resolved.
C3_ResolvedAtIffResolved ==
    \A i \in incidents : (i.resolved_at # Null) <=> (i.status = "resolved")

\* C4: createIncidentUpdate with status S on an existing incident, by an existing
\* creator, leaves the parent with status S and an updated_at strictly greater
\* than before the call.
C4_UpdateAdvancesParent ==
    [][\A input \in IncidentUpdateInputs(TimedStatusInputs) :
         (/\ last'.op = "createIncidentUpdate"
          /\ input.incident_id \in Ids(incidents)
          /\ input.created_by \in users
          /\ createIncidentUpdate(input)) =>
            LET before == Row(incidents, input.incident_id)
                after == Row(incidents', input.incident_id)
            IN  /\ after.status = input.status
                /\ after.updated_at > before.updated_at
      ]_vars

\* C5: createIncidentUpdate succeeds exactly when the incident and the creator
\* exist; a failed call adds no update row and changes no incident, a successful
\* one adds exactly its update row and gives the parent (and no other incident)
\* the update's status and the time of the call.
C5_UpdateAllOrNothing ==
    [][\A input \in IncidentUpdateInputs(StatusInputs) :
         (last'.op = "createIncidentUpdate" /\ createIncidentUpdate(input)) =>
            /\ last'.ok <=> (input.incident_id \in Ids(incidents) /\ input.created_by \in users)
            /\ ~last'.ok =>
                 /\ incident_updates' = incident_updates
                 /\ incidents' = incidents
            /\ last'.ok =>
                 /\ \E u \in incident_updates' \ incident_updates :
                      /\ incident_updates' = incident_updates \cup {u}
                      /\ u.incident_id = input.incident_id
                      /\ u.status = input.status
                 /\ Ids(incidents') = Ids(incidents)
                 /\ \A i \in incidents' :
                      IF i.id = input.incident_id
                      THEN i.status = input.status /\ i.updated_at = now
                      ELSE i \in incidents
      ]_vars

\* A call refused for its unknown creator on an existing incident that an
\* earlier, successful call has updated.
C5_Witness ==
    /\ last.op = "createIncidentUpdate" /\ ~last.ok
    /\ last.id \in Ids(incidents)
    /\ \E u \in incident_updates : u.incident_id = last.id

----------------------------------------------------------------------------
\* createMaintenanceWindow

\* A filter that stops at the first offending id.
FirstInvalidComponentId(ids, validComponentIds) ==
    LET invalid == SelectSeq(ids, LAMBDA id : id \notin validComponentIds)
    IN  IF invalid = <<>> THEN <<>> ELSE <<Head(invalid)>>

\* input.affected_component_ids.filter(id => !validComponentIds.includes(id)),
\* which the error message joins.
InvalidComponentIds(ids, validComponentIds) ==
    SelectSeq(ids, LAMBDA id : id \notin validComponentIds)

createMaintenanceWindow(input) ==
    LET id == nextId.maintenance_windows
        ids == input.affected_component_ids
        validComponentIds ==
            {c.id : c \in {c \in components : c.status_page_id = input.status_page_id}}
        invalidComponentIds == InvalidComponentIds(ids, validComponentIds)
        maintenanceWindow == [id |-> id,
                              status_page_id |-> input.status_page_id,
                              title |-> input.title,
                              updated_at |-> now,
                              status |-> "scheduled",
                              actual_start |-> Null,
                              actual_end |-> Null,
                              created_by |-> input.created_by]
        fail(err) == /\ last' = err
                     /\ UNCHANGED <<maintenance_windows, maintenance_affected_components,
                                    nextId>>
    IN  /\ IF input.status_page_id \notin Ids(status_pages)
           THEN fail(Err("createMaintenanceWindow", UnknownId, "Status page not found"))
           ELSE IF input.created_by \notin users
           THEN fail(Err("createMaintenanceWindow", UnknownId, "User not found"))
           ELSE IF Len(ids) > 0 /\ Len(invalidComponentIds) > 0
           THEN fail(Err("createMaintenanceWindow", UnknownId,
                         "Components not found or do not belong to the status page")
                        @@ [ids |-> invalidComponentIds])
           ELSE /\ maintenance_windows' = maintenance_windows \cup {maintenanceWindow}
                /\ maintenance_affected_components' = maintenance_affected_components \cup
                        AffectedRows("maintenance_window_id", id, ids,
                                     nextId.maintenance_affected_components)
                /\ nextId' = [nextId EXCEPT
                                !.maintenance_windows = @ + 1,
                                !.maintenance_affected_components = @ + Len(ids)]
                /\ last' = Ok("createMaintenanceWindow", id)
        /\ UNCHANGED <<inflight, users, organizations, organization_members, status_pages, components,
                       incidents, incident_updates, incident_affected_components, now>>

----------------------------------------------------------------------------
\* updateMaintenanceWindow.  A patch is a record holding the fields the caller
\* supplied; updateData is the record the handler builds from it for the UPDATE.

\* The fields the handler copies (only the columns modelled).
CopiedFields(input) ==
    [k \in DOMAIN input \cap {"title", "actual_start", "actual_end", "status"} |-> input[k]]
        @@ [updated_at |-> now]

\* A stamp that overrides a supplied actual_start.
WithActualStartAlways(updateData, input) ==
    IF input.status = "in_progress"
    THEN Set(updateData, "actual_start", Date(now))
    ELSE updateData

WithActualStart(updateData, input) ==
    IF input.status = "in_progress" /\ ~Has(updateData, "actual_start")
    THEN Set(updateData, "actual_start", Date(now))
    ELSE updateData

\* A stamp on completion only.
WithActualEndOnCompleted(updateData, input) ==
    IF input.status = "completed" /\ ~Has(updateData, "actual_end")
    THEN Set(updateData, "actual_end", Date(now))
    ELSE updateData

WithActualEnd(updateData, input) ==
    IF input.status \in {"completed", "cancelled"} /\ ~Has(updateData, "actual_end")
    THEN Set(updateData, "actual_end", Date(now))
    ELSE updateData

\* A reset that yields to supplied values.
WithScheduledResetUnlessSupplied(updateData, input) ==
    IF input.status = "scheduled"
    THEN Set(Set(updateData, "actual_start",
                 IF Has(input, "actual_start") THEN input.actual_start ELSE Null),
             "actual_end", IF Has(input, "actual_end") THEN input.actual_end ELSE Null)
    ELSE updateData

\* A reset of actual_end alone.
WithScheduledResetOfEnd(updateData, input) ==
    IF input.status = "scheduled"
    THEN Set(updateData, "actual_end", Null)
    ELSE updateData

WithScheduledReset(updateData, input) ==
    IF input.status = "scheduled"
    THEN Set(Set(updateData, "actual_start", Null), "actual_end", Null)
    ELSE updateData

UpdateData(input) ==
    IF Has(input, "status")
    THEN WithScheduledReset(
            WithActualEnd(WithActualStart(CopiedFields(input), input), input), input)
    ELSE CopiedFields(input)

updateMaintenanceWindow(input) ==
    /\ IF input.id \in Ids(maintenance_windows)
       THEN /\ maintenance_windows' =
                    {IF w.id = input.id THEN ApplyUpdate(w, UpdateData(input)) ELSE w :
                        w \in maintenance_windows}
            /\ last' = Ok("updateMaintenanceWindow", input.id)
       ELSE /\ last' = Err("updateMaintenanceWindow", input.id, "Maintenance window not found")
            /\ UNCHANGED maintenance_windows
    /\ UNCHANGED <<inflight, users, organizations, organization_members, status_pages, components,
                   incidents, incident_updates, incident_affected_components,
                   maintenance_affected_components, nextId, now>>

----------------------------------------------------------------------------
\* The maintenance specification: updateMaintenanceWindow on the window of the
\* fixture and on an id that names none, and the clock.

\* The fixture of the handler's tests: one scheduled window on status page 1.
MaintenanceWindowFixture ==
    [id |-> 1, status_page_id |-> 1, title |-> "Original Maintenance",
     updated_at |-> 0, status |-> "scheduled", actual_start |-> Null,
     actual_end |-> Null, created_by |-> 1]

InitMaintenance ==
    /\ users = {1}
    /\ organizations = {OrganizationFixture(1, "pro", 1)}
    /\ organization_members = {}
    /\ status_pages = {StatusPageFixture(1, 1)}
    /\ components = {}
    /\ incidents = {}
    /\ incident_updates = {}
    /\ maintenance_windows = {MaintenanceWindowFixture}
    /\ incident_affected_components = {}
    /\ maintenance_affected_components = {}
    /\ nextId = [FirstIds EXCEPT !.organizations = 2, !.status_pages = 2,
                                 !.maintenance_windows = 2]
    /\ now = 0
    /\ last = Ok("init", 0)
    /\ inflight = NoRequests

MaintenancePatches(ids, dates) ==
    {[id |-> i] @@ s @@ a @@ e :
        i \in ids,
        s \in Field("status", maintenanceStatusEnum),
        a \in Field("actual_start", dates),
        e \in Field("actual_end", dates)}

\* The dates a caller supplies: null, or the time the model starts at.
SuppliedDates == {Null, Date(0)}

NextMaintenance ==
    \/ Tick
    \/ \E input \in MaintenancePatches(Ids(maintenance_windows), SuppliedDates)
                        \cup {[id |-> UnknownId, status |-> "in_progress"]} :
         updateMaintenanceWindow(input)

SpecMaintenance == InitMaintenance /\ [][NextMaintenance]_vars

----------------------------------------------------------------------------
\* Properties of the maintenance lifecycle.

\* The successful updateMaintenanceWindow calls that set `status` on the window
\* the step reports, with every choice of the two actual_* fields.
StatusPatches(status) ==
    {[id |-> last'.id, status |-> status] @@ a @@ e :
        a \in Field("actual_start", SuppliedDates),
        e \in Field("actual_end", SuppliedDates)}

IsUpdateTo(statuses) ==
    /\ last'.op = "updateMaintenanceWindow"
    /\ last'.ok
    /\ Row(maintenance_windows', last'.id).status \in statuses

\* C6: after an updateMaintenanceWindow call that sets status to in_progress on an
\* existing window, actual_start is the actual_start of the patch when the patch
\* carries one, and the time of the call otherwise.
C6_InProgressSetsActualStart ==
    [][IsUpdateTo({"in_progress"}) =>
         \A input \in StatusPatches("in_progress") :
            updateMaintenanceWindow(input) =>
                LET after == Row(maintenance_windows', input.id)
                IN  IF Has(input, "actual_start")
                    THEN after.actual_start = input.actual_start
                    ELSE after.actual_start = Date(now)
      ]_vars

\* A window put in progress at time 2 with no actual_start supplied, and one put
\* in progress later than the actual_start its patch supplied.
C6_Witness ==
    /\ last.op = "updateMaintenanceWindow" /\ last.ok
    /\ \E w \in maintenance_windows :
         /\ w.id = last.id
         /\ w.status = "in_progress"
         /\ now = 2
         /\ w.actual_start \in {Date(0), Date(2)}
         /\ w.actual_end = Null

\* C7: after an updateMaintenanceWindow call that sets status to completed or
\* cancelled on an existing window, actual_end is the actual_end of the patch when
\* the patch carries one, and the time of the call otherwise.
C7_FinishSetsActualEnd ==
    [][\A status \in {"completed", "cancelled"} :
         IsUpdateTo({status}) =>
            \A input \in StatusPatches(status) :
                updateMaintenanceWindow(input) =>
                    LET after == Row(maintenance_windows', input.id)
                    IN  IF Has(input, "actual_end")
                        THEN after.actual_end = input.actual_end
                        ELSE after.actual_end = Date(now)
      ]_vars

\* A window cancelled at time 2, stamped then, after it was started at time 1.
C7_Witness ==
    /\ last.op = "updateMaintenanceWindow" /\ last.ok
    /\ \E w \in maintenance_windows :
         /\ w.id = last.id
         /\ w.status = "cancelled"
         /\ w.actual_start = Date(1)
         /\ w.actual_end = Date(2)

\* C8: after an updateMaintenanceWindow call that sets status to scheduled, both
\* actual_start and actual_end are null, whatever they were and whatever the
\* patch supplies for them.
C8_ScheduledClearsActuals ==
    [][IsUpdateTo({"scheduled"}) =>
         \A input \in StatusPatches("scheduled") :
            updateMaintenanceWindow(input) =>
                LET after == Row(maintenance_windows', input.id)
                IN  after.actual_start = Null /\ after.actual_end = Null
      ]_vars

\* The window of the fixture found scheduled, with neither actual time, by a
\* successful update at time 2.
C8_Witness ==
    /\ last.op = "updateMaintenanceWindow" /\ last.ok
    /\ now = 2
    /\ \E w \in maintenance_windows :
         /\ w.id = last.id
         /\ w.status = "scheduled"
         /\ w.actual_start = Null
         /\ w.actual_end = Null
         /\ w.updated_at = 2

----------------------------------------------------------------------------
\* deleteStatusPage.  The handler issues its DELETE statements one after another
\* outside any transaction; the schema's foreign keys carry no ON DELETE clause,
\* so a DELETE of rows that another row still references throws, and what the
\* earlier statements removed stays removed.

\* A delete that is not scoped by its WHERE clause.
DeleteAll(table, column, values) == {}

\* The rows DELETE FROM table WHERE column IN values leaves.
DeleteWhere(table, column, values) == {r \in table : r[column] \notin values}

\* Some row of `children` references one of the parent rows `ids`.
Restricted(children, column, ids) == \E r \in children : r[column] \in ids

\* A handler that removes the page row alone, on a schema that lets it.
deleteStatusPageRowOnly(id) ==
    /\ IF id \in Ids(status_pages)
       THEN /\ status_pages' = {p \in status_pages : p.id # id}
            /\ last' = Ok("deleteStatusPage", id)
       ELSE /\ last' = ReturnsFalse("deleteStatusPage", id)
            /\ UNCHANGED status_pages
    /\ UNCHANGED <<inflight, users, organizations, organization_members, components, incidents,
                   incident_updates, maintenance_windows, incident_affected_components,
                   maintenance_affected_components, nextId, now>>

\* `ok` is the handler returning true; returning false is neither ok nor an error.
deleteStatusPage(id) ==
    LET pageIncidents == {i.id : i \in {i \in incidents : i.status_page_id = id}}
        updates1 == DeleteWhere(incident_updates, "incident_id", pageIncidents)
        affected2 == DeleteWhere(incident_affected_components, "incident_id", pageIncidents)
        pageWindows ==
            {w.id : w \in {w \in maintenance_windows : w.status_page_id = id}}
        affected3 == DeleteWhere(maintenance_affected_components, "maintenance_window_id",
                                 pageWindows)
        incidents4 == DeleteWhere(incidents, "status_page_id", {id})
        windows5 == DeleteWhere(maintenance_windows, "status_page_id", {id})
        components6 == DeleteWhere(components, "status_page_id", {id})
        pages7 == DeleteWhere(status_pages, "id", {id})
        throws4 == \/ Restricted(updates1, "incident_id", Ids(incidents) \ Ids(incidents4))
                   \/ Restricted(affected2, "incident_id", Ids(incidents) \ Ids(incidents4))
        throws5 == Restricted(affected3, "maintenance_window_id",
                              Ids(maintenance_windows) \ Ids(windows5))
        throws6 == \/ Restricted(affected2, "component_id", Ids(components) \ Ids(components6))
                   \/ Restricted(affected3, "component_id", Ids(components) \ Ids(components6))
        throws7 == \/ Restricted(components6, "status_page_id", Ids(status_pages) \ Ids(pages7))
                   \/ Restricted(incidents4, "status_page_id", Ids(status_pages) \ Ids(pages7))
                   \/ Restricted(windows5, "status_page_id", Ids(status_pages) \ Ids(pages7))
        thrownAt == IF throws4 THEN 4 ELSE IF throws5 THEN 5 ELSE IF throws6 THEN 6
                    ELSE IF throws7 THEN 7 ELSE 0
    IN  /\ IF id \notin Ids(status_pages)
           THEN /\ last' = ReturnsFalse("deleteStatusPage", id)
                /\ UNCHANGED tables
           ELSE /\ incident_updates' = updates1
                /\ incident_affected_components' = affected2
                /\ maintenance_affected_components' = affected3
                /\ incidents' = IF thrownAt = 4 THEN incidents ELSE incidents4
                /\ maintenance_windows' =
                        IF thrownAt \in {4, 5} THEN maintenance_windows ELSE windows5
                /\ components' = IF thrownAt \in {4, 5, 6} THEN components ELSE components6
                /\ status_pages' = IF thrownAt = 0 THEN pages7 ELSE status_pages
                /\ last' = IF thrownAt = 0
                           THEN Ok("deleteStatusPage", id)
                           ELSE Err("deleteStatusPage", id, ForeignKeyViolation)
                /\ UNCHANGED <<users, organizations, organization_members>>
        /\ UNCHANGED <<inflight, nextId, now>>

----------------------------------------------------------------------------
\* The deletion specification: incidents (some naming the other page's
\* component), their updates and maintenance windows on the two pages, and
\* deleteStatusPage on either page or on an id that names none.

DeleteIncidentInputs ==
    [status_page_id : {1, 2}, title : {"Test Incident"}, status : {"investigating"},
     created_by : {1}, affected_component_ids : {<<>>, <<1>>}]

DeleteUpdateInputs ==
    [incident_id : Ids(incidents), status : {"monitoring"}, created_by : {1}]

DeleteWindowInputs ==
    [status_page_id : {1, 2}, title : {"Test Maintenance"}, created_by : {1},
     affected_component_ids : {<<>>, <<1>>}]

NextDelete ==
    \/ \E input \in DeleteIncidentInputs :
         /\ nextId.incidents <= MaxPageIncidents
         /\ createIncident(input)
    \/ \E input \in DeleteUpdateInputs :
         /\ nextId.incident_updates <= MaxPageUpdates
         /\ createIncidentUpdate(input)
    \/ \E input \in DeleteWindowInputs :
         /\ nextId.maintenance_windows <= MaxPageWindows
         /\ createMaintenanceWindow(input)
    \/ \E id \in {1, 2, UnknownId} : deleteStatusPage(id)

SpecDelete == InitPages /\ [][NextDelete]_vars

----------------------------------------------------------------------------
\* Properties of deleteStatusPage.

IncidentsOf(id) == {i.id : i \in {i \in incidents : i.status_page_id = id}}
WindowsOf(id) == {w.id : w \in {w \in maintenance_windows : w.status_page_id = id}}

\* C9: after deleteStatusPage(id) returns true, the page row is gone, no component,
\* incident or maintenance window of the page remains, no update or affected-
\* component row of an incident that belonged to the page remains, and no
\* affected-component row of a window that belonged to the page remains.
C9_DeleteRemovesDependents ==
    [][\A id \in {1, 2, UnknownId} :
         (last'.op = "deleteStatusPage" /\ last'.id = id /\ last'.ok) =>
            /\ id \notin Ids(status_pages')
            /\ \A c \in components' : c.status_page_id # id
            /\ \A i \in incidents' : i.status_page_id # id
            /\ \A w \in maintenance_windows' : w.status_page_id # id
            /\ \A u \in incident_updates' : u.incident_id \notin IncidentsOf(id)
            /\ \A a \in incident_affected_components' : a.incident_id \notin IncidentsOf(id)
            /\ \A a \in maintenance_affected_components' :
                    a.maintenance_window_id \notin WindowsOf(id)
      ]_vars

\* Page 1 deleted after it held an incident with an update and an affected
\* component and a maintenance window with an affected component; page 2, still
\* there, never lost a row.
C9_Witness ==
    /\ last.op = "deleteStatusPage" /\ last.ok /\ last.id = 1
    /\ 2 \in Ids(status_pages)
    /\ incidents = {} /\ maintenance_windows = {}
    /\ nextId.incidents > 1 /\ nextId.incident_updates > 1
    /\ nextId.maintenance_windows > 1
    /\ nextId.incident_affected_components > 1
    /\ nextId.maintenance_affected_components > 1

\* C10: deleteStatusPage(id), whatever its outcome, leaves unchanged every other
\* status page, every component, incident and maintenance window of another page,
\* every update and affected-component row of another page's incident, every
\* affected-component row of another page's window, and all users, organizations
\* and organization members.
C10_DeleteFrame ==
    [][\A id \in {1, 2, UnknownId} :
         (last'.op = "deleteStatusPage" /\ last'.id = id) =>
            LET others(table, column, ids) == {r \in table : r[column] \notin ids}
            IN  /\ others(status_pages', "id", {id}) = others(status_pages, "id", {id})
                /\ others(components', "status_page_id", {id})
                        = others(components, "status_page_id", {id})
                /\ others(incidents', "status_page_id", {id})
                        = others(incidents, "status_page_id", {id})
                /\ others(maintenance_windows', "status_page_id", {id})
                        = others(maintenance_windows, "status_page_id", {id})
                /\ others(incident_updates', "incident_id", IncidentsOf(id))
                        = others(incident_updates, "incident_id", IncidentsOf(id))
                /\ others(incident_affected_components', "incident_id", IncidentsOf(id))
                        = others(incident_affected_components, "incident_id", IncidentsOf(id))
                /\ others(maintenance_affected_components', "maintenance_window_id",
                          WindowsOf(id))
                        = others(maintenance_affected_components, "maintenance_window_id",
                                 WindowsOf(id))
                /\ users' = users
                /\ organizations' = organizations
                /\ organization_members' = organization_members
      ]_vars

\* Page 1 deleted with its incident while page 2 keeps an incident, that
\* incident's update and its component.
C10_Witness ==
    /\ last.op = "deleteStatusPage" /\ last.ok /\ last.id = 1
    /\ \E i \in incidents :
         /\ i.status_page_id = 2
         /\ \E u \in incident_updates : u.incident_id = i.id
    /\ Cardinality(incidents) < nextId.incidents - 1
    /\ 2 \in Ids(components)

\* C11: deleteStatusPage(id) for an id that names no status page returns false,
\* throws nothing and leaves every table unchanged; in particular the call that
\* follows a successful deleteStatusPage(id) with the same id returns false.
C11_DeleteAbsentReturnsFalse ==
    [][\A id \in {1, 2, UnknownId} :
         (last'.op = "deleteStatusPage" /\ last'.id = id) =>
            /\ id \notin Ids(status_pages) =>
                 /\ ~last'.ok /\ last'.err = ""
                 /\ tables' = tables
                 /\ nextId' = nextId
            /\ (last.op = "deleteStatusPage" /\ last.id = id /\ last.ok) =>
                 /\ ~last'.ok /\ last'.err = ""
                 /\ tables' = tables
      ]_vars

\* deleteStatusPage(1) returning false once page 1, which held an incident, is
\* gone.
C11_Witness ==
    /\ last = ReturnsFalse("deleteStatusPage", 1)
    /\ 1 \notin Ids(status_pages)
    /\ nextId.incidents > 1
    /\ incidents = {}

----------------------------------------------------------------------------
\* deleteComponent

\* A delete that takes the incidents and windows naming the component with it.
deleteComponentWithParents(id) ==
    LET named == {a.incident_id : a \in {a \in incident_affected_components :
                                            a.component_id = id}}
        windowsNamed == {a.maintenance_window_id :
                            a \in {a \in maintenance_affected_components :
                                        a.component_id = id}}
    IN  /\ IF id \notin Ids(components)
           THEN /\ last' = ReturnsFalse("deleteComponent", id)
                /\ UNCHANGED <<components, incidents, maintenance_windows,
                               incident_affected_components,
                               maintenance_affected_components>>
           ELSE /\ incident_affected_components' =
                        DeleteWhere(incident_affected_components, "incident_id", named)
                /\ maintenance_affected_components' =
                        DeleteWhere(maintenance_affected_components,
                                    "maintenance_window_id", windowsNamed)
                /\ incidents' = DeleteWhere(incidents, "id", named)
                /\ maintenance_windows' = DeleteWhere(maintenance_windows, "id", windowsNamed)
                /\ components' = DeleteWhere(components, "id", {id})
                /\ last' = Ok("deleteComponent", id)
        /\ UNCHANGED <<inflight, users, organizations, organization_members, status_pages,
                       incident_updates, nextId, now>>

\* Both junction tables are emptied of the component before its row is deleted, so
\* the last DELETE meets no reference and affects one row.
deleteComponent(id) ==
    LET affected1 == DeleteWhere(incident_affected_components, "component_id", {id})
        affected2 == DeleteWhere(maintenance_affected_components, "component_id", {id})
        components3 == DeleteWhere(components, "id", {id})
        rowCount == Cardinality(components) - Cardinality(components3)
    IN  /\ IF id \notin Ids(components)
           THEN /\ last' = ReturnsFalse("deleteComponent", id)
                /\ UNCHANGED <<components, incident_affected_components,
                               maintenance_affected_components>>
           ELSE /\ incident_affected_components' = affected1
                /\ maintenance_affected_components' = affected2
                /\ components' = components3
                /\ last' = IF rowCount > 0
                           THEN Ok("deleteComponent", id)
                           ELSE ReturnsFalse("deleteComponent", id)
        /\ UNCHANGED <<inflight, users, organizations, organization_members, status_pages, incidents,
                       incident_updates, maintenance_windows, nextId, now>>

\* The component specification: incidents and maintenance windows naming one or
\* both components, updates, and deleteComponent on either component or on an id
\* that names none.
ComponentIncidentInputs ==
    [status_page_id : {1}, title : {"Test Incident"}, status : {"investigating"},
     created_by : {1}, affected_component_ids : {<<1>>, <<1, 2>>}]

ComponentWindowInputs ==
    [status_page_id : {1, 2}, title : {"Test Maintenance"}, created_by : {1},
     affected_component_ids : {<<1>>, <<2>>}]

NextComponent ==
    \/ \E input \in ComponentIncidentInputs :
         /\ nextId.incidents <= MaxPageIncidents
         /\ createIncident(input)
    \/ \E input \in DeleteUpdateInputs :
         /\ nextId.incident_updates <= MaxPageUpdates
         /\ createIncidentUpdate(input)
    \/ \E input \in ComponentWindowInputs :
         /\ nextId.maintenance_windows <= MaxPageWindows
         /\ createMaintenanceWindow(input)
    \/ \E id \in {1, 2, UnknownId} : deleteComponent(id)

SpecComponent == InitPages /\ [][NextComponent]_vars

\* C12: deleteComponent(id) on an existing component returns true and removes
\* exactly that component's row and the rows of both junction tables whose
\* component_id is id; incidents, maintenance windows, incident updates and every
\* other row are unchanged.  On an absent id it returns false and changes nothing.
C12_DeleteComponentFrame ==
    [][\A id \in {1, 2, UnknownId} :
         (last'.op = "deleteComponent" /\ last'.id = id) =>
            IF id \in Ids(components)
            THEN /\ last'.ok
                 /\ components' = components \ {Row(components, id)}
                 /\ incident_affected_components' =
                        {a \in incident_affected_components : a.component_id # id}
                 /\ maintenance_affected_components' =
                        {a \in maintenance_affected_components : a.component_id # id}
                 /\ incidents' = incidents
                 /\ maintenance_windows' = maintenance_windows
                 /\ incident_updates' = incident_updates
                 /\ <<users, organizations, organization_members, status_pages>>' =
                        <<users, organizations, organization_members, status_pages>>
            ELSE /\ last' = ReturnsFalse("deleteComponent", id)
                 /\ tables' = tables
      ]_vars

\* Component 1 deleted while an incident that named components 1 and 2 keeps
\* its row, its update and its link to component 2, and a window that named
\* component 1 keeps its row.
C12_Witness ==
    /\ last = Ok("deleteComponent", 1)
    /\ \E i \in incidents :
         /\ \E a \in incident_affected_components :
                a.incident_id = i.id /\ a.component_id = 2
         /\ \E u \in incident_updates : u.incident_id = i.id
    /\ maintenance_windows # {}
    /\ nextId.maintenance_affected_components > 1
    /\ maintenance_affected_components = {}

----------------------------------------------------------------------------
\* The window specification: createMaintenanceWindow with every mix of known and
\* unknown page, creator and components, and deleteComponent, after which a
\* component id names nothing.

WindowInputs ==
    [status_page_id : {1, 2, UnknownId}, title : {"Test Maintenance"},
     created_by : {1, UnknownId},
     affected_component_ids : {<<>>, <<1>>, <<1, 2>>, <<UnknownId, 2>>}]

NextWindow ==
    \/ \E input \in WindowInputs :
         /\ nextId.maintenance_windows <= MaxWindows
         /\ createMaintenanceWindow(input)
    \/ \E id \in {1, 2} : deleteComponent(id)

SpecWindow == InitPages /\ [][NextWindow]_vars

\* The ids of the input, in its order, that name no component or a component of
\* another status page.
Offending(input) ==
    SelectSeq(input.affected_component_ids,
              LAMBDA id : \A c \in components :
                            c.id = id => c.status_page_id # input.status_page_id)

RejectedListing(input) ==
    /\ ~last'.ok
    /\ "ids" \in DOMAIN last'
    /\ last'.ids = Offending(input)

NoWindowRows ==
    /\ maintenance_windows' = maintenance_windows
    /\ maintenance_affected_components' = maintenance_affected_components

\* C13 as stated: createMaintenanceWindow whose affected_component_ids holds an id
\* of no component, or of a component of another status page, fails with an error
\* that lists every offending id and writes no window row and no junction row.
C13_InvalidComponentsListed ==
    [][\A input \in WindowInputs :
         (/\ last'.op = "createMaintenanceWindow"
          /\ Offending(input) # <<>>
          /\ createMaintenanceWindow(input)) =>
            RejectedListing(input) /\ NoWindowRows
      ]_vars

\* C13, amended: such a call always fails and writes no window row and no
\* junction row; its error lists every offending id when the status page and the
\* creator exist, and is the not-found error of the page or of the creator
\* otherwise.
C13_InvalidComponentsRejected ==
    [][\A input \in WindowInputs :
         (/\ last'.op = "createMaintenanceWindow"
          /\ Offending(input) # <<>>
          /\ createMaintenanceWindow(input)) =>
            /\ ~last'.ok
            /\ NoWindowRows
            /\ IF input.status_page_id \notin Ids(status_pages)
               THEN last'.err = "Status page not found"
               ELSE IF input.created_by \notin users
               THEN last'.err = "User not found"
               ELSE RejectedListing(input)
      ]_vars

\* A call on page 1 refused for two ids, one of no component and one of page 2's
\* component, after an earlier window was created.
C13_Witness ==
    /\ last.op = "createMaintenanceWindow" /\ ~last.ok
    /\ "ids" \in DOMAIN last
    /\ last.ids = <<UnknownId, 2>>
    /\ 2 \in Ids(components)
    /\ maintenance_windows # {}

----------------------------------------------------------------------------
\* Affected components and their parents.

IncidentLinksSamePage ==
    \A a \in incident_affected_components :
        \E i \in incidents, c \in components :
            /\ i.id = a.incident_id
            /\ c.id = a.component_id
            /\ i.status_page_id = c.status_page_id

WindowLinksSamePage ==
    \A a \in maintenance_affected_components :
        \E w \in maintenance_windows, c \in components :
            /\ w.id = a.maintenance_window_id
            /\ c.id = a.component_id
            /\ w.status_page_id = c.status_page_id

\* C14: in every reachable state each incident_affected_components row links an
\* incident and a component of the same status page, and each
\* maintenance_affected_components row links a maintenance window and a component
\* of the same status page.
C14_AffectedSamePage == IncidentLinksSamePage /\ WindowLinksSamePage

\* C15: a createIncident call that throws leaves no incident row and no
\* incident_affected_components row behind: both tables are as before the call.
C15_FailedCreateIncidentWritesNothing ==
    [][(last'.op = "createIncident" /\ ~last'.ok) =>
            /\ incidents' = incidents
            /\ incident_affected_components' = incident_affected_components
      ]_vars

----------------------------------------------------------------------------
\* updateStatusPage and updateComponent (the columns modelled: name, the nullable
\* description, updated_at).

\* A copy that drops an explicit null.
CopiedUnlessNull(input, fields) ==
    [k \in {f \in DOMAIN input \cap fields : ~(f = "description" /\ input[f] = Null)} |->
        input[k]]
        @@ [updated_at |-> now]

\* A copy that stamps created_at along with updated_at.
CopiedStampingCreation(input, fields) ==
    [k \in DOMAIN input \cap fields |-> input[k]] @@ [updated_at |-> now, created_at |-> now]

\* if (input.<field> !== undefined) updateData.<field> = input.<field>, on top of
\* updated_at: new Date().
Copied(input, fields) == [k \in DOMAIN input \cap fields |-> input[k]] @@ [updated_at |-> now]

\* The handler without its existence check: the UPDATE matches no row and the
\* call returns.
updateStatusPageUnchecked(input) ==
    /\ status_pages' =
            {IF p.id = input.id
             THEN ApplyUpdate(p, Copied(input, {"name", "description"}))
             ELSE p : p \in status_pages}
    /\ last' = Ok("updateStatusPage", input.id)
    /\ UNCHANGED <<inflight, users, organizations, organization_members, components, incidents,
                   incident_updates, maintenance_windows, incident_affected_components,
                   maintenance_affected_components, nextId, now>>

updateStatusPage(input) ==
    /\ IF input.id \notin Ids(status_pages)
       THEN /\ last' = Err("updateStatusPage", input.id, "Status page not found")
            /\ UNCHANGED status_pages
       ELSE /\ status_pages' =
                    {IF p.id = input.id
                     THEN ApplyUpdate(p, Copied(input, {"name", "description"}))
                     ELSE p : p \in status_pages}
            /\ last' = Ok("updateStatusPage", input.id)
    /\ UNCHANGED <<inflight, users, organizations, organization_members, components, incidents,
                   incident_updates, maintenance_windows, incident_affected_components,
                   maintenance_affected_components, nextId, now>>

updateComponent(input) ==
    /\ IF input.id \notin Ids(components)
       THEN /\ last' = Err("updateComponent", input.id, "Component not found")
            /\ UNCHANGED components
       ELSE /\ components' =
                    {IF c.id = input.id
                     THEN ApplyUpdate(c, Copied(input, {"name", "description"}))
                     ELSE c : c \in components}
            /\ last' = Ok("updateComponent", input.id)
    /\ UNCHANGED <<inflight, users, organizations, organization_members, status_pages, incidents,
                   incident_updates, maintenance_windows, incident_affected_components,
                   maintenance_affected_components, nextId, now>>

----------------------------------------------------------------------------
\* The patch specification: the four update handlers and the clock, on a status
\* page that holds nothing, one component, one incident or one maintenance
\* window.  The page itself is patched while it holds nothing.

IncidentFixture ==
    [id |-> 1, status_page_id |-> 1, title |-> "Test Incident",
     status |-> "investigating", created_by |-> 1, updated_at |-> 0,
     resolved_at |-> Null]

InitPatch ==
    /\ users = {1}
    /\ organizations = {OrganizationFixture(1, "pro", 1)}
    /\ organization_members = {}
    /\ status_pages = {StatusPageFixture(1, 1)}
    /\ \E held \in {"nothing", "component", "incident", "maintenance_window"} :
         /\ components = {ComponentFixture(1, 1) : x \in {held} \cap {"component"}}
         /\ incidents = {IncidentFixture : x \in {held} \cap {"incident"}}
         /\ maintenance_windows =
                {MaintenanceWindowFixture : x \in {held} \cap {"maintenance_window"}}
    /\ incident_updates = {}
    /\ incident_affected_components = {}
    /\ maintenance_affected_components = {}
    /\ nextId = [FirstIds EXCEPT !.organizations = 2, !.status_pages = 2,
                                 !.components = 2, !.incidents = 2,
                                 !.maintenance_windows = 2]
    /\ now = 0
    /\ last = Ok("init", 0)
    /\ inflight = NoRequests

NamePatches(ids) ==
    {[id |-> i] @@ n @@ d :
        i \in ids,
        n \in Field("name", {"Renamed"}),
        d \in Field("description", {Null, Text("Described")})}

IncidentFieldPatches(ids) ==
    {[id |-> i] @@ t @@ s :
        i \in ids,
        t \in Field("title", {"Retitled"}),
        s \in Field("status", TimedStatusInputs)}

WindowFieldPatches(ids) ==
    {[id |-> i] @@ t @@ s @@ a @@ e :
        i \in ids,
        t \in Field("title", {"Retitled"}),
        s \in Field("status", {"scheduled", "completed"}),
        a \in Field("actual_start", SuppliedDates),
        e \in Field("actual_end", SuppliedDates)}

\* The patches that carry nothing but an id of no row, or that and one field.
UnknownIdPatches(field, value) == {[id |-> UnknownId], Set([id |-> UnknownId], field, value)}

PatchedPageIds ==
    IF components = {} /\ incidents = {} /\ maintenance_windows = {}
    THEN Ids(status_pages)
    ELSE {}

NextPatch ==
    \/ Tick
    \/ \E input \in NamePatches(PatchedPageIds) \cup UnknownIdPatches("name", "Renamed") :
         updateStatusPage(input)
    \/ \E input \in NamePatches(Ids(components)) \cup UnknownIdPatches("name", "Renamed") :
         updateComponent(input)
    \/ \E input \in IncidentFieldPatches(Ids(incidents))
                        \cup UnknownIdPatches("status", "resolved") :
         updateIncident(input)
    \/ \E input \in WindowFieldPatches(Ids(maintenance_windows))
                        \cup UnknownIdPatches("status", "scheduled") :
         updateMaintenanceWindow(input)

SpecPatch == InitPatch /\ [][NextPatch]_vars

----------------------------------------------------------------------------
\* Properties of the update handlers.

\* The columns a status in the patch makes the handler derive.
Derived == {"resolved_at", "actual_start", "actual_end"}

\* `after` is `before` with the patch applied as C16 states it.
SparselyPatched(before, after, input) ==
    /\ \A k \in DOMAIN before \ {"updated_at"} :
            IF Has(input, k)
            THEN after[k] = input[k]
            ELSE (Has(input, "status") /\ k \in Derived) \/ after[k] = before[k]
    /\ after.updated_at = now

\* The same, with the actual times of a patch that sets status to scheduled
\* cleared instead of applied.
SparselyPatchedOrReset(before, after, input) ==
    LET reset == IF Has(input, "status") /\ input.status = "scheduled"
                 THEN {"actual_start", "actual_end"}
                 ELSE {}
    IN  /\ \A k \in DOMAIN before \ {"updated_at"} :
                IF k \in reset
                THEN after[k] = Null
                ELSE IF Has(input, k)
                THEN after[k] = input[k]
                ELSE (Has(input, "status") /\ k \in Derived) \/ after[k] = before[k]
        /\ after.updated_at = now

\* The successful call of `op` that the step reports.
Updated(op) == last'.op = op /\ last'.ok

\* C16 as stated: a successful updateStatusPage, updateComponent, updateIncident
\* or updateMaintenanceWindow gives every field present in the patch the patch's
\* value (an explicit null included), leaves every absent field that is not
\* derived from a status in the same patch as it was, and sets updated_at to the
\* time of the call, even for a patch that carries only the id.
C16_SparsePatch ==
    [][/\ Updated("updateStatusPage") =>
            \A input \in NamePatches({last'.id}) :
                updateStatusPage(input) =>
                    SparselyPatched(Row(status_pages, input.id),
                                    Row(status_pages', input.id), input)
       /\ Updated("updateComponent") =>
            \A input \in NamePatches({last'.id}) :
                updateComponent(input) =>
                    SparselyPatched(Row(components, input.id),
                                    Row(components', input.id), input)
       /\ Updated("updateIncident") =>
            \A input \in IncidentFieldPatches({last'.id}) :
                updateIncident(input) =>
                    SparselyPatched(Row(incidents, input.id),
                                    Row(incidents', input.id), input)
       /\ Updated("updateMaintenanceWindow") =>
            \A input \in WindowFieldPatches({last'.id}) :
                updateMaintenanceWindow(input) =>
                    SparselyPatched(Row(maintenance_windows, input.id),
                                    Row(maintenance_windows', input.id), input)
      ]_vars

\* C16, amended: as above, except that a patch that sets status to scheduled
\* leaves actual_start and actual_end null whatever it carries for them.
C16_SparsePatchOrReset ==
    [][/\ Updated("updateStatusPage") =>
            \A input \in NamePatches({last'.id}) :
                updateStatusPage(input) =>
                    SparselyPatchedOrReset(Row(status_pages, input.id),
                                           Row(status_pages', input.id), input)
       /\ Updated("updateComponent") =>
            \A input \in NamePatches({last'.id}) :
                updateComponent(input) =>
                    SparselyPatchedOrReset(Row(components, input.id),
                                           Row(components', input.id), input)
       /\ Updated("updateIncident") =>
            \A input \in IncidentFieldPatches({last'.id}) :
                updateIncident(input) =>
                    SparselyPatchedOrReset(Row(incidents, input.id),
                                           Row(incidents', input.id), input)
       /\ Updated("updateMaintenanceWindow") =>
            \A input \in WindowFieldPatches({last'.id}) :
                updateMaintenanceWindow(input) =>
                    SparselyPatchedOrReset(Row(maintenance_windows, input.id),
                                           Row(maintenance_windows', input.id), input)
      ]_vars

\* A component renamed and described earlier, then patched at time 2 with a
\* patch that can only have been the id alone or an explicit null description
\* with no name: the name is kept and updated_at is the time of the call.
C16_Witness ==
    /\ last = Ok("updateComponent", 1)
    /\ now = 2
    /\ \E c \in components :
         /\ c.id = 1
         /\ c.name = "Renamed"
         /\ c.description = Null
         /\ c.updated_at = 2

\* The table each update handler writes, and the entity its not-found error names.
NotFoundErrors ==
    [updateStatusPage |-> "Status page not found",
     updateComponent |-> "Component not found",
     updateIncident |-> "Incident not found",
     updateMaintenanceWindow |-> "Maintenance window not found"]

UpdatedTable(op) ==
    CASE op = "updateStatusPage" -> status_pages
      [] op = "updateComponent" -> components
      [] op = "updateIncident" -> incidents
      [] op = "updateMaintenanceWindow" -> maintenance_windows

\* C17: updateStatusPage, updateComponent, updateIncident and
\* updateMaintenanceWindow called with an id of no row fail with the not-found
\* error of their entity for that id, and leave every table unchanged.
C17_UpdateAbsentNotFound ==
    [][\A op \in DOMAIN NotFoundErrors :
         (last'.op = op /\ last'.id \notin Ids(UpdatedTable(op))) =>
            /\ last' = Err(op, last'.id, NotFoundErrors[op])
            /\ tables' = tables
            /\ nextId' = nextId
      ]_vars

\* updateStatusPage refused for an unknown id while status page 1 exists, renamed
\* by an earlier call.
C17_Witness ==
    /\ last = Err("updateStatusPage", UnknownId, "Status page not found")
    /\ \E p \in status_pages : p.id = 1 /\ p.name = "Renamed"

----------------------------------------------------------------------------
\* Concurrent requests.  The server handles each request independently and a
\* handler yields at every `await`; no create handler below runs in a
\* transaction.  A request is split where it matters: the statements that read
\* (up to the last check) and, later, the insert.  Other requests run between.

\* createStatusPage up to the limit check.
createStatusPageReads(slot, input) ==
    LET organization == {o \in organizations : o.id = input.organization_id}
        fail(err) == /\ last' = Err("createStatusPage", input.organization_id, err)
                     /\ UNCHANGED inflight
    IN  /\ inflight[slot] = Idle
        /\ IF organization = {}
           THEN fail("Organization not found")
           ELSE LET org == CHOOSE o \in organization : TRUE
                    currentCount == StatusPageCount(input.organization_id)
                    limit == statusPageLimits[org.plan_type]
                IN  IF AtLeast(currentCount, limit)
                    THEN /\ last' = QuotaExceeded("createStatusPage", input.organization_id,
                                               "Plan limit exceeded", org.plan_type, limit)
                         /\ UNCHANGED inflight
                    ELSE /\ inflight' = Suspended(slot, "createStatusPage", input)
                         /\ UNCHANGED last
        /\ UNCHANGED <<tables, nextId, now>>

\* The insert of createStatusPage.
createStatusPageInsert(slot) ==
    LET input == inflight[slot].input
    IN  /\ inflight[slot].op = "createStatusPage"
        /\ status_pages' = status_pages \cup
               {[id |-> nextId.status_pages,
                 organization_id |-> input.organization_id,
                 name |-> input.name,
                 description |-> input.description,
                 updated_at |-> now]}
        /\ nextId' = Bump("status_pages")
        /\ last' = Ok("createStatusPage", nextId.status_pages)
        /\ inflight' = Resumed(slot)
        /\ UNCHANGED <<users, organizations, organization_members, components, incidents,
                       incident_updates, maintenance_windows,
                       incident_affected_components, maintenance_affected_components, now>>

\* createComponent up to the limit check.
createComponentReads(slot, input) ==
    LET statusPageResult == StatusPagePlan(input.status_page_id)
        fail(err) == /\ last' = Err("createComponent", input.status_page_id, err)
                     /\ UNCHANGED inflight
    IN  /\ inflight[slot] = Idle
        /\ IF statusPageResult = {}
           THEN fail("Status page not found")
           ELSE LET plan_type == CHOOSE t \in statusPageResult : TRUE
                    currentComponentCount == ComponentCount(input.status_page_id)
                    limit == componentLimits[plan_type]
                IN  IF AtLeast(currentComponentCount, limit)
                    THEN /\ last' = QuotaExceeded("createComponent", input.status_page_id,
                                               "Component limit exceeded", plan_type, limit)
                         /\ UNCHANGED inflight
                    ELSE /\ inflight' = Suspended(slot, "createComponent", input)
                         /\ UNCHANGED last
        /\ UNCHANGED <<tables, nextId, now>>

\* The insert of createComponent.
createComponentInsert(slot) ==
    LET input == inflight[slot].input
    IN  /\ inflight[slot].op = "createComponent"
        /\ components' = components \cup
               {[id |-> nextId.components,
                 status_page_id |-> input.status_page_id,
                 name |-> input.name,
                 description |-> input.description,
                 updated_at |-> now]}
        /\ nextId' = Bump("components")
        /\ last' = Ok("createComponent", nextId.components)
        /\ inflight' = Resumed(slot)
        /\ UNCHANGED <<users, organizations, organization_members, status_pages, incidents,
                       incident_updates, maintenance_windows,
                       incident_affected_components, maintenance_affected_components, now>>

\* addOrganizationMember up to the limit check.
addOrganizationMemberReads(slot, input) ==
    LET orgs == {o \in organizations : o.id = input.organization_id}
        fail(err) == /\ last' = Err("addOrganizationMember", input.organization_id, err)
                     /\ UNCHANGED inflight
    IN  /\ inflight[slot] = Idle
        /\ IF orgs = {}
           THEN fail("Organization not found")
           ELSE IF input.user_id \notin users
           THEN fail("User not found")
           ELSE IF IsMember(input.organization_id, input.user_id)
           THEN fail("User is already a member of this organization")
           ELSE LET organization == CHOOSE o \in orgs : TRUE
                    currentMemberCount == MemberCount(input.organization_id)
                    limit == memberLimits[organization.plan_type]
                IN  IF AtLeast(currentMemberCount, limit)
                    THEN /\ last' = QuotaExceeded("addOrganizationMember",
                                               input.organization_id,
                                               "Organization has reached the member limit",
                                               organization.plan_type, limit)
                         /\ UNCHANGED inflight
                    ELSE /\ inflight' = Suspended(slot, "addOrganizationMember", input)
                         /\ UNCHANGED last
        /\ UNCHANGED <<tables, nextId, now>>

\* The insert of addOrganizationMember.  organizationMembersTable declares no
\* unique constraint on (organization_id, user_id): the row is always added.
addOrganizationMemberInsert(slot) ==
    LET input == inflight[slot].input
    IN  /\ inflight[slot].op = "addOrganizationMember"
        /\ organization_members' = organization_members \cup
               {[id |-> nextId.organization_members,
                 organization_id |-> input.organization_id,
                 user_id |-> input.user_id]}
        /\ nextId' = Bump("organization_members")
        /\ last' = Ok("addOrganizationMember", nextId.organization_members)
        /\ inflight' = Resumed(slot)
        /\ UNCHANGED <<users, organizations, status_pages, components, incidents,
                       incident_updates, maintenance_windows,
                       incident_affected_components, maintenance_affected_components, now>>

\* A free organization one row short of each of its limits: organization 1 has
\* six members and a page of six components, organization 2 has no page.
RaceUsers == 1 .. 8
RaceMembers == 1 .. 6
RaceComponents == 1 .. 6

InitRace ==
    /\ users = RaceUsers
    /\ organizations = {OrganizationFixture(1, "free", 1), OrganizationFixture(2, "free", 1)}
    /\ organization_members =
           {[id |-> u, organization_id |-> 1, user_id |-> u] : u \in RaceMembers}
    /\ status_pages = {StatusPageFixture(1, 1)}
    /\ components = {ComponentFixture(c, 1) : c \in RaceComponents}
    /\ incidents = {}
    /\ incident_updates = {}
    /\ maintenance_windows = {}
    /\ incident_affected_components = {}
    /\ maintenance_affected_components = {}
    /\ nextId = [FirstIds EXCEPT !.organizations = 3, !.organization_members = 7,
                                 !.status_pages = 2, !.components = 7]
    /\ now = 0
    /\ last = Ok("init", 0)
    /\ inflight = NoRequests

Slots == 1 .. MaxInflight

RacePageInputs ==
    {[organization_id |-> 2, name |-> "Test Status Page", description |-> Null]}

RaceComponentInputs ==
    {[status_page_id |-> 1, name |-> "Test Component", description |-> Null]}

RaceMemberInputs ==
    [organization_id : {1}, user_id : RaceUsers \ RaceMembers] \cup
    {[organization_id |-> 1, user_id |-> 1],
     [organization_id |-> 1, user_id |-> UnknownId],
     [organization_id |-> UnknownId, user_id |-> 1]}

NextRace ==
    \/ \E slot \in Slots, input \in RacePageInputs : createStatusPageReads(slot, input)
    \/ \E slot \in Slots : createStatusPageInsert(slot)
    \/ \E slot \in Slots, input \in RaceComponentInputs : createComponentReads(slot, input)
    \/ \E slot \in Slots : createComponentInsert(slot)
    \/ \E slot \in Slots, input \in RaceMemberInputs : addOrganizationMemberReads(slot, input)
    \/ \E slot \in Slots : addOrganizationMemberInsert(slot)

SpecRace == InitRace /\ [][NextRace]_vars

\* C18: in every reachable state, interleavings of concurrent creates under the
\* same parent included, an organization's status pages, a status page's
\* components and an organization's members number at most the limit of the
\* owning organization's plan.
C18_QuotaNeverExceeded ==
    \A o \in organizations :
        LET limit == SpecLimit[o.plan_type]
        IN  /\ StatusPageCount(o.id) <= limit.status_pages
            /\ Cardinality({m.user_id : m \in {r \in organization_members :
                                                 r.organization_id = o.id}})
                   <= limit.members
            /\ \A p \in status_pages :
                   p.organization_id = o.id => ComponentCount(p.id) <= limit.components

\* C19: in every reachable state, interleavings of concurrent
\* addOrganizationMember requests included, no two member rows name the same
\* (organization, user) pair.
C19_MemberPairUnique ==
    \A m1, m2 \in organization_members :
        m1.organization_id = m2.organization_id /\ m1.user_id = m2.user_id => m1 = m2

----------------------------------------------------------------------------
\* createOrganization

UniqueViolation == "duplicate key value violates unique constraint"

\* A slug column with no unique constraint.
SlugUnconstrained(slug) == FALSE

\* slug: text('slug').notNull().unique() -- the store refuses a second row.
SlugConflict(slug) == \E o \in organizations : o.slug = slug

\* createOrganization up to the slug check.
createOrganizationReads(slot, input) ==
    LET existingOwner == {u \in users : u = input.owner_id}
        existingSlug == {o \in organizations : o.slug = input.slug}
        fail(err) == /\ last' = Err("createOrganization", input.owner_id, err)
                     /\ UNCHANGED inflight
    IN  /\ inflight[slot] = Idle
        /\ IF existingOwner = {}
           THEN fail("Owner not found")
           ELSE IF existingSlug # {}
           THEN fail("Organization with slug already exists")
           ELSE /\ inflight' = Suspended(slot, "createOrganization", input)
                /\ UNCHANGED last
        /\ UNCHANGED <<tables, nextId, now>>

\* The insert of createOrganization.  The sequence advances even when the store
\* refuses the row.
createOrganizationInsert(slot) ==
    LET input == inflight[slot].input
    IN  /\ inflight[slot].op = "createOrganization"
        /\ IF input.owner_id \notin users
           THEN /\ last' = Err("createOrganization", input.owner_id, ForeignKeyViolation)
                /\ UNCHANGED organizations
           ELSE IF SlugConflict(input.slug)
           THEN /\ last' = Err("createOrganization", input.owner_id, UniqueViolation)
                /\ UNCHANGED organizations
           ELSE /\ organizations' = organizations \cup
                       {[id |-> nextId.organizations,
                         slug |-> input.slug,
                         plan_type |-> input.plan_type,
                         owner_id |-> input.owner_id]}
                /\ last' = Ok("createOrganization", nextId.organizations)
        /\ nextId' = Bump("organizations")
        /\ inflight' = Resumed(slot)
        /\ UNCHANGED <<users, organization_members, status_pages, components, incidents,
                       incident_updates, maintenance_windows,
                       incident_affected_components, maintenance_affected_components, now>>

\* A store holding one user and no organization.
InitOrganization ==
    /\ users = {1}
    /\ organizations = {}
    /\ organization_members = {}
    /\ status_pages = {}
    /\ components = {}
    /\ incidents = {}
    /\ incident_updates = {}
    /\ maintenance_windows = {}
    /\ incident_affected_components = {}
    /\ maintenance_affected_components = {}
    /\ nextId = FirstIds
    /\ now = 0
    /\ last = Ok("init", 0)
    /\ inflight = NoRequests

OrganizationInputs ==
    [slug : {"test-org", "other-org"}, plan_type : {"free", "pro"},
     owner_id : {1, UnknownId}]

NextOrganization ==
    \/ \E slot \in Slots, input \in OrganizationInputs : createOrganizationReads(slot, input)
    \/ \E slot \in Slots : createOrganizationInsert(slot)

SpecOrganization == InitOrganization /\ [][NextOrganization]_vars

SlugUnique ==
    \A o1, o2 \in organizations : o1.slug = o2.slug => o1 = o2

\* A step of createOrganization that finds its slug in use fails and leaves the
\* organizations as they were.
DuplicateSlugRejected ==
    /\ \A slot \in Slots, input \in OrganizationInputs :
           createOrganizationReads(slot, input)
               /\ (\E o \in organizations : o.slug = input.slug)
               /\ input.owner_id \in users
               => /\ ~last'.ok
                  /\ last'.err = "Organization with slug already exists"
                  /\ organizations' = organizations
    /\ \A slot \in Slots :
           createOrganizationInsert(slot)
               /\ (\E o \in organizations : o.slug = inflight[slot].input.slug)
               => /\ ~last'.ok
                  /\ organizations' = organizations

\* C20: in every reachable state, interleavings of concurrent createOrganization
\* requests included, no two organizations share a slug; a createOrganization
\* whose slug is already in use fails and adds no organization.
C20_SlugUnique == []SlugUnique /\ [][DuplicateSlugRejected]_vars

\* Two requests for one slug both passed the slug check; the first inserted and
\* the store refused the second.
C20_Witness ==
    /\ \E o \in organizations : o.slug = "test-org"
    /\ last = Err("createOrganization", 1, UniqueViolation)

----------------------------------------------------------------------------
\* Quota errors.

\* The resource kind a create handler counts.
QuotaKind ==
    [createStatusPage |-> "status_pages", createComponent |-> "components",
     addOrganizationMember |-> "members"]

\* The plan of the organization a refused create was counted against.
RefusedPlan(outcome) ==
    IF outcome.op = "createComponent"
    THEN OrgPlan((CHOOSE p \in status_pages : p.id = outcome.id).organization_id)
    ELSE OrgPlan(outcome.id)

\* C21: whenever createStatusPage, createComponent or addOrganizationMember is
\* refused for quota, the error names the plan tier of the organization and the
\* numeric limit that was reached, and no row is inserted.
C21_QuotaErrorNamesTierAndLimit ==
    [][(~last'.ok /\ last'.err \in QuotaErrors) =>
           /\ Has(last', "plan") /\ Has(last', "limit")
           /\ last'.plan = RefusedPlan(last')
           /\ last'.limit = SpecLimit[last'.plan][QuotaKind[last'.op]]
           /\ tables' = tables
      ]_vars

\* A second status page was refused on a free organization: 'free' and 1.
C21_Witness ==
    /\ last.op = "createStatusPage" /\ ~last.ok /\ last.err = "Plan limit exceeded"
    /\ OrgPlan(last.id) = "free"
    /\ last.plan = "free" /\ last.limit = 1
    /\ StatusPageCount(last.id) = 1

----------------------------------------------------------------------------
\* resolved_at along the status changes of an incident.

\* What a step that changes the status of incident `i` into that of `j` owes
\* resolved_at.
ResolvedAtFollows(i, j) ==
    /\ (i.status # "resolved" /\ j.status = "resolved") => j.resolved_at = Date(now')
    /\ (i.status = "resolved" /\ j.status # "resolved") => j.resolved_at = Null

\* C22: each time an incident's status changes from a non-resolved status to
\* resolved, resolved_at is set to the time of that change; each time it leaves
\* resolved, resolved_at becomes null.
C22_ResolvedAtFollowsStatus ==
    [][\A i \in incidents : \A j \in incidents' :
           j.id = i.id => ResolvedAtFollows(i, j)]_vars

\* The same, for the status changes made by updateIncident.
ResolvedAtFollowsPatch ==
    [][last'.op = "updateIncident" =>
           \A i \in incidents : \A j \in incidents' :
               j.id = i.id => ResolvedAtFollows(i, j)]_vars

----------------------------------------------------------------------------
\* deleteStatusPage, statement by statement.  The handler sends its selects
\* and deletes to the store one `await` after another, outside any transaction:
\* each statement commits on its own and other requests run in between.  A
\* request remembers the statement it is at (pc), the incidents it selected
\* and, for the record, whether it has removed a row yet.

\* The existence check of deleteStatusPage.
deleteStatusPageBegin(slot, id) ==
    /\ inflight[slot] = Idle
    /\ IF id \notin Ids(status_pages)
       THEN /\ last' = ReturnsFalse("deleteStatusPage", id)
            /\ UNCHANGED inflight
       ELSE /\ inflight' = [inflight EXCEPT ![slot] =
                               [op |-> "deleteStatusPage", input |-> id, pc |-> 1,
                                incidents |-> {}, removed |-> FALSE]]
            /\ UNCHANGED last
    /\ UNCHANGED <<tables, nextId, now>>

\* The request of `slot` after its statement left `table` as `after`.
Advanced(slot, table, after) ==
    [inflight EXCEPT ![slot].pc = @ + 1,
                     ![slot].removed = @ \/ after # table]

\* A cascade that deletes the incidents (4) before their junction rows (2).
StatementReordered(pc) == IF pc = 2 THEN 4 ELSE IF pc = 4 THEN 2 ELSE pc

\* The statement the handler sends as its pc-th: the cascade runs in the order
\* of the source, dependents first.
StatementAt(pc) == pc

\* The next statement of the deleteStatusPage request in `slot`.
deleteStatusPageStatement(slot) ==
    LET request == inflight[slot]
        id == request.input
        selected == {i.id : i \in {i \in incidents : i.status_page_id = id}}
        updates1 == DeleteWhere(incident_updates, "incident_id", selected)
        affected2 == DeleteWhere(incident_affected_components, "incident_id",
                                 request.incidents)
        pageWindows ==
            {w.id : w \in {w \in maintenance_windows : w.status_page_id = id}}
        affected3 == DeleteWhere(maintenance_affected_components, "maintenance_window_id",
                                 pageWindows)
        incidents4 == DeleteWhere(incidents, "status_page_id", {id})
        windows5 == DeleteWhere(maintenance_windows, "status_page_id", {id})
        components6 == DeleteWhere(components, "status_page_id", {id})
        pages7 == DeleteWhere(status_pages, "id", {id})
        throws4 == \/ Restricted(incident_updates, "incident_id",
                                 Ids(incidents) \ Ids(incidents4))
                   \/ Restricted(incident_affected_components, "incident_id",
                                 Ids(incidents) \ Ids(incidents4))
        throws5 == Restricted(maintenance_affected_components, "maintenance_window_id",
                              Ids(maintenance_windows) \ Ids(windows5))
        throws6 == \/ Restricted(incident_affected_components, "component_id",
                                 Ids(components) \ Ids(components6))
                   \/ Restricted(maintenance_affected_components, "component_id",
                                 Ids(components) \ Ids(components6))
        throws7 == \/ Restricted(components, "status_page_id",
                                 Ids(status_pages) \ Ids(pages7))
                   \/ Restricted(incidents, "status_page_id",
                                 Ids(status_pages) \ Ids(pages7))
                   \/ Restricted(maintenance_windows, "status_page_id",
                                 Ids(status_pages) \ Ids(pages7))
        throw == /\ last' = Err("deleteStatusPage", id, ForeignKeyViolation)
                 /\ inflight' = Resumed(slot)
                 /\ UNCHANGED tables
    IN  /\ request.op = "deleteStatusPage"
        /\ \/ /\ StatementAt(request.pc) = 1
              /\ incident_updates' = updates1
              /\ inflight' = [Advanced(slot, incident_updates, updates1)
                                 EXCEPT ![slot].incidents = selected]
              /\ UNCHANGED <<last, users, organizations, organization_members,
                             status_pages, components, incidents, maintenance_windows,
                             incident_affected_components, maintenance_affected_components>>
           \/ /\ StatementAt(request.pc) = 2
              /\ incident_affected_components' = affected2
              /\ inflight' = Advanced(slot, incident_affected_components, affected2)
              /\ UNCHANGED <<last, users, organizations, organization_members,
                             status_pages, components, incidents, incident_updates,
                             maintenance_windows, maintenance_affected_components>>
           \/ /\ StatementAt(request.pc) = 3
              /\ maintenance_affected_components' = affected3
              /\ inflight' = Advanced(slot, maintenance_affected_components, affected3)
              /\ UNCHANGED <<last, users, organizations, organization_members,
                             status_pages, components, incidents, incident_updates,
                             maintenance_windows, incident_affected_components>>
           \/ /\ StatementAt(request.pc) = 4
              /\ IF throws4
                 THEN throw
                 ELSE /\ incidents' = incidents4
                      /\ inflight' = Advanced(slot, incidents, incidents4)
                      /\ UNCHANGED <<last, users, organizations, organization_members,
                                     status_pages, components, incident_updates,
                                     maintenance_windows, incident_affected_components,
                                     maintenance_affected_components>>
           \/ /\ StatementAt(request.pc) = 5
              /\ IF throws5
                 THEN throw
                 ELSE /\ maintenance_windows' = windows5
                      /\ inflight' = Advanced(slot, maintenance_windows, windows5)
                      /\ UNCHANGED <<last, users, organizations, organization_members,
                                     status_pages, components, incidents, incident_updates,
                                     incident_affected_components,
                                     maintenance_affected_components>>
           \/ /\ StatementAt(request.pc) = 6
              /\ IF throws6
                 THEN throw
                 ELSE /\ components' = components6
                      /\ inflight' = Advanced(slot, components, components6)
                      /\ UNCHANGED <<last, users, organizations, organization_members,
                                     status_pages, incidents, incident_updates,
                                     maintenance_windows, incident_affected_components,
                                     maintenance_affected_components>>
           \/ /\ StatementAt(request.pc) = 7
              /\ IF throws7
                 THEN throw
                 ELSE /\ status_pages' = pages7
                      /\ last' = Ok("deleteStatusPage", id)
                      /\ inflight' = Resumed(slot)
                      /\ UNCHANGED <<users, organizations, organization_members,
                                     components, incidents, incident_updates,
                                     maintenance_windows, incident_affected_components,
                                     maintenance_affected_components>>
        /\ UNCHANGED <<nextId, now>>

\* The cascade specification: incidents, incident updates and maintenance
\* windows created on page 1 (naming its own component or none) while one
\* deleteStatusPage request at a time runs on page 1, statement by statement.
CascadeIncidentInputs ==
    [status_page_id : {1}, title : {"Test Incident"}, status : {"investigating"},
     created_by : {1}, affected_component_ids : {<<>>, <<1>>}]

CascadeWindowInputs ==
    [status_page_id : {1}, title : {"Test Maintenance"}, created_by : {1},
     affected_component_ids : {<<>>, <<1>>}]

NextCascade ==
    \/ \E input \in CascadeIncidentInputs :
         /\ nextId.incidents <= MaxPageIncidents
         /\ createIncident(input)
    \/ \E input \in DeleteUpdateInputs :
         /\ nextId.incident_updates <= MaxPageUpdates
         /\ createIncidentUpdate(input)
    \/ \E input \in CascadeWindowInputs :
         /\ nextId.maintenance_windows <= MaxPageWindows
         /\ createMaintenanceWindow(input)
    \/ \E id \in {1, UnknownId} : deleteStatusPageBegin(1, id)
    \/ deleteStatusPageStatement(1)

SpecCascade == InitPages /\ [][NextCascade]_vars

\* C23: deleteStatusPage is all-or-nothing even when other requests run between
\* its statements: a deleteStatusPage that throws has removed none of the
\* page's rows.
C23_DeleteAllOrNothing ==
    [][\A slot \in Slots :
           (/\ inflight[slot].op = "deleteStatusPage"
            /\ inflight'[slot] = Idle
            /\ last'.op = "deleteStatusPage" /\ ~last'.ok)
               => ~inflight[slot].removed]_vars

----------------------------------------------------------------------------
\* Reads.  A list read returns the ids of the rows it selects (`rows`);
\* getStatusPage returns a row or null (`row`).  A read changes no table.

Returned(op, id, rows) == Ok(op, id) @@ [rows |-> rows]

Read(outcome) ==
    /\ last' = outcome
    /\ UNCHANGED <<inflight, tables, nextId, now>>

getStatusPages(organizationId) ==
    LET organization == {o \in organizations : o.id = organizationId}
        results == {p \in status_pages : p.organization_id = organizationId}
    IN  IF organization = {}
        THEN Read(Err("getStatusPages", organizationId, "Organization not found"))
        ELSE Read(Returned("getStatusPages", organizationId, {p.id : p \in results}))

getStatusPage(id) ==
    LET results == {p \in status_pages : p.id = id}
    IN  IF results = {}
        THEN Read(Ok("getStatusPage", id) @@ [row |-> Null])
        ELSE Read(Ok("getStatusPage", id) @@ [row |-> <<id>>])

getComponents(statusPageId) ==
    LET results == {c \in components : c.status_page_id = statusPageId}
    IN  Read(Returned("getComponents", statusPageId, {c.id : c \in results}))

getIncidents(statusPageId) ==
    LET results == {i \in incidents : i.status_page_id = statusPageId}
    IN  Read(Returned("getIncidents", statusPageId, {i.id : i \in results}))

getIncidentUpdates(incidentId) ==
    LET results == {u \in incident_updates : u.incident_id = incidentId}
    IN  Read(Returned("getIncidentUpdates", incidentId, {u.id : u \in results}))

getMaintenanceWindows(statusPageId) ==
    LET results == {w \in maintenance_windows : w.status_page_id = statusPageId}
    IN  Read(Returned("getMaintenanceWindows", statusPageId, {w.id : w \in results}))

\* The read specification: incidents, updates and windows created on the two
\* pages, and every read on an id that names a row and on one that names none.
RootIds == {1, 2, UnknownId}

NextRead ==
    \/ \E input \in DeleteIncidentInputs :
         /\ nextId.incidents <= MaxPageIncidents
         /\ createIncident(input)
    \/ \E input \in DeleteUpdateInputs :
         /\ nextId.incident_updates <= MaxPageUpdates
         /\ createIncidentUpdate(input)
    \/ \E input \in DeleteWindowInputs :
         /\ nextId.maintenance_windows <= MaxPageWindows
         /\ createMaintenanceWindow(input)
    \/ \E id \in RootIds : getStatusPages(id)
    \/ \E id \in RootIds : getStatusPage(id)
    \/ \E id \in RootIds : getComponents(id)
    \/ \E id \in RootIds : getIncidents(id)
    \/ \E id \in RootIds : getIncidentUpdates(id)
    \/ \E id \in RootIds : getMaintenanceWindows(id)

SpecRead == InitPages /\ [][NextRead]_vars

\* The table a list read looks its root id up in.
RootTable(op) ==
    IF op = "getStatusPages" THEN organizations
    ELSE IF op = "getIncidentUpdates" THEN incidents
    ELSE status_pages

\* The list reads `ops` return an empty list, and no error, for a root id that
\* names no row.
AbsentRootReadsEmpty(ops) ==
    (last'.op \in ops /\ last'.id \notin Ids(RootTable(last'.op)))
        => last'.ok /\ last'.rows = {}

PageListReads ==
    {"getComponents", "getIncidents", "getIncidentUpdates", "getMaintenanceWindows"}

\* The list reads under a status page or an incident, and getStatusPage.
PageReadsOfAbsentRoot ==
    [][/\ AbsentRootReadsEmpty(PageListReads)
       /\ (last'.op = "getStatusPage" /\ last'.id \notin Ids(status_pages))
              => last'.ok /\ last'.row = Null]_vars

\* C24: every list read (getStatusPages, getComponents, getIncidents,
\* getIncidentUpdates, getMaintenanceWindows) called with a root id that names no
\* row returns an empty list and no error, and getStatusPage with an unknown id
\* returns null.
C24_ReadsOfAbsentRoot ==
    [][/\ AbsentRootReadsEmpty(PageListReads \cup {"getStatusPages"})
       /\ (last'.op = "getStatusPage" /\ last'.id \notin Ids(status_pages))
              => last'.ok /\ last'.row = Null]_vars

----------------------------------------------------------------------------
\* The log specification: every handler that writes an incident, an incident
\* update or a row they reference, on the two pages.
LogPatches ==
    {[id |-> i, status |-> "resolved"] : i \in Ids(incidents)}

NextLog ==
    \/ \E input \in DeleteIncidentInputs :
         /\ nextId.incidents <= MaxPageIncidents
         /\ createIncident(input)
    \/ \E input \in DeleteUpdateInputs :
         /\ nextId.incident_updates <= MaxIncidentUpdates
         /\ createIncidentUpdate(input)
    \/ \E input \in LogPatches : updateIncident(input)
    \/ deleteComponent(1)
    \/ \E id \in {1, 2} : deleteStatusPage(id)

SpecLog == InitPages /\ [][NextLog]_vars

\* The page that owns the incident of update row `u`.
OwningPage(u) == (CHOOSE i \in incidents : i.id = u.incident_id).status_page_id

----------------------------------------------------------------------------
\* The parent specification: every create handler, each called with parents
\* and users that exist and with ones that do not.
ParentIds == {1, UnknownId}

ParentPageInputs ==
    [organization_id : ParentIds, name : {"Test Status Page"}, description : {Null}]

ParentComponentInputs ==
    [status_page_id : ParentIds, name : {"Test Component"}, description : {Null}]

ParentOrganizationInputs ==
    [slug : {"other-org"}, plan_type : {"free"}, owner_id : ParentIds]

ParentMemberInputs == [organization_id : ParentIds, user_id : ParentIds]

ParentWindowInputs ==
    [status_page_id : ParentIds, title : {"Test Maintenance"}, created_by : ParentIds,
     affected_component_ids : {<<>>}]

ParentIncidentInputs ==
    [status_page_id : ParentIds, title : {"Test Incident"}, status : {"investigating"},
     created_by : ParentIds, affected_component_ids : {<<>>}]

NextParent ==
    \/ \E input \in ParentPageInputs :
         /\ Cardinality(status_pages) < MaxParentRows
         /\ createStatusPage(input)
    \/ \E input \in ParentComponentInputs :
         /\ Cardinality(components) < MaxParentRows
         /\ createComponent(input)
    \/ \E input \in ParentOrganizationInputs : createOrganizationReads(1, input)
    \/ createOrganizationInsert(1)
    \/ \E input \in ParentMemberInputs :
         addOrganizationMember(input.organization_id, input.user_id)
    \/ \E input \in ParentWindowInputs :
         /\ Cardinality(maintenance_windows) < MaxParentRows
         /\ createMaintenanceWindow(input)
    \/ \E input \in ParentIncidentInputs :
         /\ Cardinality(incidents) < MaxParentRows
         /\ createIncident(input)

SpecParent == InitPages /\ [][NextParent]_vars

\* The call failed and wrote no row.
Rejected == ~last'.ok /\ tables' = tables

\* C26: a create that names a parent or a user that does not exist fails and
\* writes no row: createStatusPage (organization), createComponent (status
\* page), createOrganization (owner), addOrganizationMember (organization,
\* user), createMaintenanceWindow and createIncident (status page, creator).
C26_UnknownParentRejected ==
    [][/\ \A input \in ParentPageInputs :
              (input.organization_id \notin Ids(organizations) /\ createStatusPage(input))
                  => Rejected
       /\ \A input \in ParentComponentInputs :
              (input.status_page_id \notin Ids(status_pages) /\ createComponent(input))
                  => Rejected
       /\ \A input \in ParentOrganizationInputs :
              (input.owner_id \notin users /\ createOrganizationReads(1, input))
                  => Rejected
       /\ \A input \in ParentMemberInputs :
              (/\ input.organization_id \notin Ids(organizations) \/ input.user_id \notin users
               /\ addOrganizationMember(input.organization_id, input.user_id))
                  => Rejected
       /\ \A input \in ParentWindowInputs :
              (/\ input.status_page_id \notin Ids(status_pages) \/ input.created_by \notin users
               /\ createMaintenanceWindow(input))
                  => Rejected
       /\ \A input \in ParentIncidentInputs :
              (/\ input.status_page_id \notin Ids(status_pages) \/ input.created_by \notin users
               /\ createIncident(input))
                  => Rejected
      ]_vars

\* createIncident was refused for its parent after rows of every kind were
\* created.
C26_Witness ==
    /\ last.op = "createIncident" /\ ~last.ok
    /\ incidents # {} /\ maintenance_windows # {} /\ organization_members # {}
    /\ Cardinality(organizations) = 2
    /\ Cardinality(status_pages) = MaxParentRows
    /\ Cardinality(components) = MaxParentRows

----------------------------------------------------------------------------
\* The undisturbed cascade: rows are created on the two pages, each naming a
\* component of its own page or none, while no deleteStatusPage is running; a
\* deleteStatusPage then runs its statements with no other request in between.
SoloIncidentInputs ==
    UNION {[status_page_id : {p}, title : {"Test Incident"}, status : {"investigating"},
            created_by : {1}, affected_component_ids : {<<>>, <<p>>}] : p \in {1, 2}}

SoloWindowInputs ==
    UNION {[status_page_id : {p}, title : {"Test Maintenance"}, created_by : {1},
            affected_component_ids : {<<>>, <<p>>}] : p \in {1, 2}}

NextSolo ==
    \/ \E input \in SoloIncidentInputs :
         /\ inflight = NoRequests
         /\ nextId.incidents <= MaxPageIncidents
         /\ createIncident(input)
    \/ \E input \in DeleteUpdateInputs :
         /\ inflight = NoRequests
         /\ nextId.incident_updates <= MaxPageUpdates
         /\ createIncidentUpdate(input)
    \/ \E input \in SoloWindowInputs :
         /\ inflight = NoRequests
         /\ nextId.maintenance_windows <= MaxPageWindows
         /\ createMaintenanceWindow(input)
    \/ \E id \in {1, 2, UnknownId} : deleteStatusPageBegin(1, id)
    \/ deleteStatusPageStatement(1)

SpecSolo == InitPages /\ [][NextSolo]_vars

\* Every foreign key names a row that exists.
ReferentialIntegrity ==
    /\ \A u \in incident_updates : u.incident_id \in Ids(incidents)
    /\ \A a \in incident_affected_components :
           a.incident_id \in Ids(incidents) /\ a.component_id \in Ids(components)
    /\ \A a \in maintenance_affected_components :
           /\ a.maintenance_window_id \in Ids(maintenance_windows)
           /\ a.component_id \in Ids(components)
    /\ \A i \in incidents : i.status_page_id \in Ids(status_pages)
    /\ \A w \in maintenance_windows : w.status_page_id \in Ids(status_pages)
    /\ \A c \in components : c.status_page_id \in Ids(status_pages)

\* C27: during a deleteStatusPage cascade that runs without interference, from a
\* state where every junction row links a parent and a component of one page,
\* every foreign key names an existing row after each delete statement, and no
\* delete statement is refused by a foreign-key constraint.
C27_CascadeKeepsIntegrity ==
    /\ C14_AffectedSamePage
    /\ ReferentialIntegrity
    /\ ~(last.op = "deleteStatusPage" /\ last.err = ForeignKeyViolation)

\* A cascade that has deleted the page's incidents, windows and components and
\* is about to delete the page, while the other page keeps its rows.
C27_Witness ==
    /\ inflight[1].op = "deleteStatusPage" /\ inflight[1].pc = 7 /\ inflight[1].removed
    /\ inflight[1].incidents # {}
    /\ incident_affected_components # {}
    /\ maintenance_affected_components # {}

----------------------------------------------------------------------------
\* createIncidentUpdate against updateIncident.

\* The incident `i` as updateIncident leaves it when patched with `status` alone.
PatchedWithStatus(i, status) == ApplyUpdate(i, UpdateValues([id |-> i.id, status |-> status]))

\* C28: for every existing incident and every status S, createIncidentUpdate
\* with status S leaves the parent incident with the status and the null or
\* non-null resolved_at that updateIncident with patch {status: S} would leave
\* it with from the same state.
C28_UpdateMatchesPatch ==
    [][\A u \in incident_updates' \ incident_updates :
           LET i == Row(incidents, u.incident_id)
               j == Row(incidents', u.incident_id)
               k == PatchedWithStatus(i, u.status)
           IN  /\ j.status = k.status
               /\ (j.resolved_at = Null) <=> (k.resolved_at = Null)]_vars

----------------------------------------------------------------------------
\* The status specification: maintenance windows, created scheduled, driven by
\* patches that carry a status and nothing else, as the clock runs.
StatusOnlyPatches == [id : Ids(maintenance_windows), status : maintenanceStatusEnum]

StatusOnlyWindowInputs ==
    [status_page_id : {1}, title : {"Test Maintenance"}, created_by : {1},
     affected_component_ids : {<<>>}]

NextStatusOnly ==
    \/ Tick
    \/ \E input \in StatusOnlyWindowInputs :
         /\ nextId.maintenance_windows <= MaxWindows
         /\ createMaintenanceWindow(input)
    \/ \E input \in StatusOnlyPatches : updateMaintenanceWindow(input)

SpecStatusOnly == InitMaintenance /\ [][NextStatusOnly]_vars

\* What a status-only patch that takes window `w` to `v` owes actual_start and
\* actual_end.
StatusDerives(w, v) ==
    /\ (w.status = "scheduled" /\ v.status = "in_progress") =>
           v.actual_start = Date(now) /\ v.actual_end = Null
    /\ (w.status = "in_progress" /\ v.status \in {"completed", "cancelled"}) =>
           /\ v.actual_end = Date(now)
           /\ v.actual_start = w.actual_start /\ v.actual_start # Null
    /\ v.status = "scheduled" => v.actual_start = Null /\ v.actual_end = Null
    /\ v.status = "in_progress" => v.actual_end = w.actual_end
    /\ v.status \in {"completed", "cancelled"} => v.actual_start = w.actual_start

\* C29: for a maintenance window driven only by status-only patches, scheduled ->
\* in_progress leaves actual_start non-null and actual_end null; a following ->
\* completed or cancelled sets actual_end and keeps the actual_start stamped on
\* entering in_progress; -> scheduled makes both null; and a status change never
\* modifies the actual_* field it does not derive.
C29_StatusOnlyLifecycle ==
    [][maintenance_windows' # maintenance_windows =>
           \A w \in maintenance_windows :
               StatusDerives(w, Row(maintenance_windows', w.id))]_vars

\* A window put in progress at time 1 and completed at time 2.
C29_Witness ==
    \E w \in maintenance_windows :
        /\ w.status = "completed"
        /\ w.actual_start = Date(1)
        /\ w.actual_end = Date(2)

----------------------------------------------------------------------------
\* The scheduling specification: a second component is added to page 1, and
\* maintenance windows are created on either page with no component, one, two,
\* the same one twice, or one of the other page.
ScheduleWindowInputs ==
    [status_page_id : {1, 2}, title : {"Test Maintenance"}, created_by : {1},
     affected_component_ids : {<<>>, <<1>>, <<1, 3>>, <<1, 1>>, <<2>>}]

ScheduleComponentInputs ==
    {[status_page_id |-> 1, name |-> "Test Component", description |-> Null]}

NextSchedule ==
    \/ \E input \in ScheduleComponentInputs :
         /\ Cardinality(components) < MaxParentRows
         /\ createComponent(input)
    \/ \E input \in ScheduleWindowInputs :
         /\ nextId.maintenance_windows <= MaxWindows
         /\ createMaintenanceWindow(input)

SpecSchedule == InitPages /\ [][NextSchedule]_vars

\* The junction rows of maintenance window `id` after the step.
JunctionRowsOf(id) ==
    {a \in maintenance_affected_components' : a.maintenance_window_id = id}

\* C30: the maintenance window a successful createMaintenanceWindow returns and
\* stores has status scheduled and null actual_start and actual_end, and has one
\* junction row for each id of affected_component_ids and no other (none when
\* the list is empty).
C30_CreatedWindowScheduled ==
    [][(last'.op = "createMaintenanceWindow" /\ last'.ok) =>
           \A input \in ScheduleWindowInputs :
               createMaintenanceWindow(input) =>
                   LET w == Row(maintenance_windows', last'.id)
                       ids == input.affected_component_ids
                   IN  /\ w \notin maintenance_windows
                       /\ w.status = "scheduled"
                       /\ w.actual_start = Null /\ w.actual_end = Null
                       /\ w.status_page_id = input.status_page_id
                       /\ Cardinality(JunctionRowsOf(w.id)) = Len(ids)
                       /\ \A c \in Ids(components) \cup {UnknownId} :
                              Cardinality({a \in JunctionRowsOf(w.id) : a.component_id = c})
                                  = Cardinality({k \in 1 .. Len(ids) : ids[k] = c})
      ]_vars

\* A window created with two components of its page, and one created with none.
C30_Witness ==
    /\ last.op = "createMaintenanceWindow" /\ last.ok
    /\ \E w \in maintenance_windows :
           {a.component_id : a \in {a \in maintenance_affected_components :
                                      a.maintenance_window_id = w.id}} = {1, 3}
    /\ \E w \in maintenance_windows :
           \A a \in maintenance_affected_components : a.maintenance_window_id # w.id

----------------------------------------------------------------------------
\* createMaintenanceWindow, statement by statement: the selects that validate
\* the input, the insert of the window, the insert of its junction rows.  The
\* handler opens no transaction; other requests run between its statements.

\* createMaintenanceWindow up to the component validation.
createMaintenanceWindowReads(slot, input) ==
    LET ids == input.affected_component_ids
        validComponentIds ==
            {c.id : c \in {c \in components : c.status_page_id = input.status_page_id}}
        invalidComponentIds == InvalidComponentIds(ids, validComponentIds)
        fail(err) == /\ last' = err
                     /\ UNCHANGED inflight
    IN  /\ inflight[slot] = Idle
        /\ IF input.status_page_id \notin Ids(status_pages)
           THEN fail(Err("createMaintenanceWindow", UnknownId, "Status page not found"))
           ELSE IF input.created_by \notin users
           THEN fail(Err("createMaintenanceWindow", UnknownId, "User not found"))
           ELSE IF Len(ids) > 0 /\ Len(invalidComponentIds) > 0
           THEN fail(Err("createMaintenanceWindow", UnknownId,
                         "Components not found or do not belong to the status page")
                        @@ [ids |-> invalidComponentIds])
           ELSE /\ inflight' = Suspended(slot, "createMaintenanceWindow", input)
                /\ UNCHANGED last
        /\ UNCHANGED <<tables, nextId, now>>

\* The insert of the maintenance window row.
createMaintenanceWindowInsert(slot) ==
    LET input == inflight[slot].input
        id == nextId.maintenance_windows
        maintenanceWindow == [id |-> id,
                              status_page_id |-> input.status_page_id,
                              title |-> input.title,
                              updated_at |-> now,
                              status |-> "scheduled",
                              actual_start |-> Null,
                              actual_end |-> Null,
                              created_by |-> input.created_by]
    IN  /\ inflight[slot].op = "createMaintenanceWindow"
        /\ IF input.status_page_id \notin Ids(status_pages) \/ input.created_by \notin users
           THEN /\ last' = Err("createMaintenanceWindow", UnknownId, ForeignKeyViolation)
                /\ inflight' = Resumed(slot)
                /\ UNCHANGED maintenance_windows
           ELSE /\ maintenance_windows' = maintenance_windows \cup {maintenanceWindow}
                /\ IF Len(input.affected_component_ids) = 0
                   THEN /\ last' = Ok("createMaintenanceWindow", id)
                        /\ inflight' = Resumed(slot)
                   ELSE /\ inflight' = [inflight EXCEPT ![slot] =
                                           [op |-> "createMaintenanceWindowLinks",
                                            input |-> input, id |-> id]]
                        /\ UNCHANGED last
        /\ nextId' = Bump("maintenance_windows")
        /\ UNCHANGED <<users, organizations, organization_members, status_pages, components,
                       incidents, incident_updates, incident_affected_components,
                       maintenance_affected_components, now>>

\* The insert of the junction rows, refused as a whole when one of them names a
\* component that no longer exists.
createMaintenanceWindowLinks(slot) ==
    LET input == inflight[slot].input
        id == inflight[slot].id
        ids == input.affected_component_ids
    IN  /\ inflight[slot].op = "createMaintenanceWindowLinks"
        /\ IF \E k \in 1 .. Len(ids) : ids[k] \notin Ids(components)
           THEN /\ last' = Err("createMaintenanceWindow", id, ForeignKeyViolation)
                /\ UNCHANGED <<maintenance_affected_components, nextId>>
           ELSE /\ maintenance_affected_components' = maintenance_affected_components \cup
                        AffectedRows("maintenance_window_id", id, ids,
                                     nextId.maintenance_affected_components)
                /\ nextId' = [nextId EXCEPT !.maintenance_affected_components = @ + Len(ids)]
                /\ last' = Ok("createMaintenanceWindow", id)
        /\ inflight' = Resumed(slot)
        /\ UNCHANGED <<users, organizations, organization_members, status_pages, components,
                       incidents, incident_updates, maintenance_windows,
                       incident_affected_components, now>>

\* The link specification: maintenance windows created on page 1, naming its
\* component or none, statement by statement, while deleteComponent runs on
\* that component.
NextLink ==
    \/ \E slot \in Slots,
          input \in [status_page_id : {1}, title : {"Test Maintenance"}, created_by : {1},
                     affected_component_ids : {<<>>, <<1>>}] :
         /\ nextId.maintenance_windows <= MaxWindows
         /\ createMaintenanceWindowReads(slot, input)
    \/ \E slot \in Slots : createMaintenanceWindowInsert(slot)
    \/ \E slot \in Slots : createMaintenanceWindowLinks(slot)
    \/ deleteComponent(1)

SpecLink == InitPages /\ [][NextLink]_vars

\* C31: when createMaintenanceWindow runs concurrently with deleteComponent of
\* one of its affected components, a createMaintenanceWindow that throws leaves
\* no maintenance window row behind.
C31_FailedCreateLeavesNoWindow ==
    [][\A slot \in Slots :
           (/\ inflight[slot].op = "createMaintenanceWindowLinks"
            /\ inflight'[slot] = Idle
            /\ last'.op = "createMaintenanceWindow" /\ ~last'.ok)
               => inflight[slot].id \notin Ids(maintenance_windows')]_vars

----------------------------------------------------------------------------
\* createIncidentUpdate, statement by statement.  db.transaction sets no isolation
\* level, so the statements run under the database's default: a transaction's
\* writes are seen by the others when it commits, and its UPDATE of the parent
\* row holds that row until then, so a second UPDATE of the same incident waits
\* for the first transaction to end.  The insert only shares the parent row, and
\* two inserts for one incident do not wait for each other.

\* tx.insert(incidentUpdatesTable).values(...).returning(): the sequence gives the
\* id, and created_at defaults to the time the transaction started.
createIncidentUpdateInsert(slot, input) ==
    LET incidentUpdate == [id |-> nextId.incident_updates,
                           incident_id |-> input.incident_id,
                           status |-> input.status,
                           created_by |-> input.created_by,
                           created_at |-> now]
    IN  /\ inflight[slot] = Idle
        /\ IF input.incident_id \in Ids(incidents) /\ input.created_by \in users
           THEN /\ inflight' = [inflight EXCEPT ![slot] =
                                   [op |-> "createIncidentUpdate", input |-> input,
                                    row |-> incidentUpdate]]
                /\ nextId' = Bump("incident_updates")
                /\ UNCHANGED last
           ELSE /\ last' = Err("createIncidentUpdate", input.incident_id,
                               ForeignKeyViolation)
                /\ UNCHANGED <<inflight, nextId>>
        /\ UNCHANGED <<users, organizations, organization_members, status_pages, components,
                       incidents, incident_updates, maintenance_windows,
                       incident_affected_components, maintenance_affected_components,
                       now>>

\* tx.update(incidentsTable).set({status, updated_at, resolved_at}).where(eq(id, ...)),
\* which waits while another transaction has written the parent row and not ended.
createIncidentUpdateParent(slot) ==
    LET input == inflight[slot].input
    IN  /\ inflight[slot].op = "createIncidentUpdate"
        /\ \A other \in 1 .. MaxInflight :
                ~(/\ inflight[other].op = "createIncidentUpdateCommit"
                  /\ inflight[other].input.incident_id = input.incident_id)
        /\ inflight' = [inflight EXCEPT ![slot] =
                           [op |-> "createIncidentUpdateCommit", input |-> input,
                            row |-> inflight[slot].row,
                            parent |-> {ParentAfterUpdate(i, input) :
                                           i \in {i \in incidents :
                                                     i.id = input.incident_id}}]]
        /\ UNCHANGED <<users, organizations, organization_members, status_pages, components,
                       incidents, incident_updates, maintenance_windows,
                       incident_affected_components, maintenance_affected_components,
                       nextId, now, last>>

\* return incidentUpdate: the callback returns and the transaction commits.
createIncidentUpdateCommit(slot) ==
    LET request == inflight[slot]
    IN  /\ request.op = "createIncidentUpdateCommit"
        /\ incident_updates' = InsertUpdate(incident_updates, request.row)
        /\ incidents' = {i \in incidents : i.id # request.input.incident_id}
                            \cup request.parent
        /\ last' = Ok("createIncidentUpdate", request.row.id)
        /\ inflight' = Resumed(slot)
        /\ UNCHANGED <<users, organizations, organization_members, status_pages, components,
                       maintenance_windows, incident_affected_components,
                       maintenance_affected_components, nextId, now>>

\* The transaction specification: one incident, and createIncidentUpdate calls for
\* it that run side by side while the clock advances.
InitTransaction ==
    /\ users = {1}
    /\ organizations = {OrganizationFixture(1, "pro", 1)}
    /\ organization_members = {}
    /\ status_pages = {StatusPageFixture(1, 1)}
    /\ components = {}
    /\ incidents = {IncidentFixture}
    /\ incident_updates = {}
    /\ maintenance_windows = {}
    /\ incident_affected_components = {}
    /\ maintenance_affected_components = {}
    /\ nextId = [FirstIds EXCEPT !.organizations = 2, !.status_pages = 2,
                                 !.incidents = 2]
    /\ now = 0
    /\ last = Ok("init", 0)
    /\ inflight = NoRequests

NextTransaction ==
    \/ Tick
    \/ \E slot \in Slots,
          input \in [incident_id : {1}, status : {"identified", "monitoring", "resolved"},
                     created_by : {1}] :
         /\ nextId.incident_updates <= MaxIncidentUpdates
         /\ createIncidentUpdateInsert(slot, input)
    \/ \E slot \in Slots : createIncidentUpdateParent(slot)
    \/ \E slot \in Slots : createIncidentUpdateCommit(slot)

SpecTransaction == InitTransaction /\ [][NextTransaction]_vars

\* The update rows of an incident that getIncidentUpdates lists first: those with
\* the greatest created_at.
ListedFirst(incident_id) ==
    LET rows == {u \in incident_updates : u.incident_id = incident_id}
    IN  {u \in rows : \A v \in rows : v.created_at <= u.created_at}

\* C32: once the createIncidentUpdate transactions for an incident have all
\* committed, the incident's status is the status of its most recently inserted
\* update row, the one getIncidentUpdates lists first.
C32_ParentFollowsLatestUpdate ==
    \A i \in incidents :
        (/\ \A slot \in Slots : inflight[slot] = Idle
         /\ ListedFirst(i.id) # {})
            => \E u \in ListedFirst(i.id) : i.status = u.status

----------------------------------------------------------------------------
\* C33: with the operations run one at a time, deleteStatusPage on an existing
\* status page returns true and never throws, also when an incident of another
\* status page was created with affected_component_ids naming a component of
\* this page.
C33_DeleteExistingPageSucceeds ==
    [][\A id \in Ids(status_pages) :
         (last'.op = "deleteStatusPage" /\ last'.id = id) =>
            last' = Ok("deleteStatusPage", id)
      ]_vars

----------------------------------------------------------------------------
\* C34: in every reachable state a maintenance window whose status is scheduled
\* has actual_start and actual_end both null.
C34_ScheduledHasNoActuals ==
    \A w \in maintenance_windows :
        w.status = "scheduled" => (w.actual_start = Null /\ w.actual_end = Null)

----------------------------------------------------------------------------
\* The refill specification: a free organization whose status page and whose
\* page's components are at the plan limits, with creates and deletes of both
\* kinds run one at a time.
InitRefill ==
    /\ users = {1}
    /\ organizations = {OrganizationFixture(1, "free", 1)}
    /\ organization_members = {}
    /\ status_pages = {StatusPageFixture(p, 1) : p \in 1 .. statusPageLimits.free[1]}
    /\ components = {ComponentFixture(c, 1) : c \in 1 .. componentLimits.free[1]}
    /\ incidents = {}
    /\ incident_updates = {}
    /\ maintenance_windows = {}
    /\ incident_affected_components = {}
    /\ maintenance_affected_components = {}
    /\ nextId = [FirstIds EXCEPT !.organizations = 2,
                                 !.status_pages = statusPageLimits.free[1] + 1,
                                 !.components = componentLimits.free[1] + 1]
    /\ now = 0
    /\ last = Ok("init", 0)
    /\ inflight = NoRequests

NextRefill ==
    \/ /\ nextId.status_pages <= statusPageLimits.free[1] + MaxRefills
       /\ createStatusPageCall
    \/ /\ nextId.components <= componentLimits.free[1] + MaxRefills
       /\ createComponentCall
    \/ \E id \in Ids(components) : deleteComponent(id)
    \/ \E id \in Ids(status_pages) : deleteStatusPage(id)

SpecRefill == InitRefill /\ [][NextRefill]_vars

\* C35: the quota is checked against the rows that exist now: the createComponent
\* that follows a successful deleteComponent on the same status page succeeds,
\* and the createStatusPage that follows a successful deleteStatusPage in the
\* same organization succeeds, also when the parent was at its plan limit before
\* the delete.
C35_DeleteFreesQuota ==
    [][/\ (last.op = "deleteComponent" /\ last.ok /\ last'.op = "createComponent")
              => last' = Ok("createComponent", nextId.components)
       /\ (last.op = "deleteStatusPage" /\ last.ok /\ last'.op = "createStatusPage")
              => last' = Ok("createStatusPage", nextId.status_pages)
      ]_vars

\* The page at its limit of components lost one and took an eighth; the page was
\* then deleted, and the organization, at its limit of one page until then, took
\* a second.
C35_Witness ==
    /\ last = Ok("createStatusPage", statusPageLimits.free[1] + 1)
    /\ nextId.components = componentLimits.free[1] + 2
    /\ Cardinality(status_pages) = statusPageLimits.free[1]

----------------------------------------------------------------------------
\* The identity specification: one status page with a component, an incident and
\* a maintenance window, the rows carrying the columns no handler is meant to
\* write (slug, created_at), under the four update handlers, createIncidentUpdate
\* and the clock.
InitIdentity ==
    /\ users = {1}
    /\ organizations = {OrganizationFixture(1, "pro", 1)}
    /\ organization_members = {}
    /\ status_pages = {StatusPageFixture(1, 1) @@ [slug |-> "original-slug",
                                                   created_at |-> 0]}
    /\ components = {ComponentFixture(1, 1) @@ [created_at |-> 0]}
    /\ incidents = {IncidentFixture @@ [created_at |-> 0]}
    /\ incident_updates = {}
    /\ maintenance_windows = {MaintenanceWindowFixture @@ [created_at |-> 0]}
    /\ incident_affected_components = {}
    /\ maintenance_affected_components = {}
    /\ nextId = [FirstIds EXCEPT !.organizations = 2, !.status_pages = 2,
                                 !.components = 2, !.incidents = 2,
                                 !.maintenance_windows = 2]
    /\ now = 0
    /\ last = Ok("init", 0)
    /\ inflight = NoRequests

NextIdentity ==
    \/ Tick
    \/ \E id \in Ids(status_pages) : updateStatusPage([id |-> id, name |-> "Renamed"])
    \/ \E id \in Ids(components) : updateComponent([id |-> id, name |-> "Renamed"])
    \/ \E id \in Ids(incidents) \cup {UnknownId}, s \in Field("status", {"resolved"}) :
         updateIncident([id |-> id] @@ s)
    \/ \E id \in Ids(maintenance_windows) :
         updateMaintenanceWindow([id |-> id, status |-> "in_progress"])
    \/ \E input \in [incident_id : Ids(incidents) \cup {UnknownId},
                      status : {"monitoring"}, created_by : {1}] :
         /\ nextId.incident_updates <= MaxPageUpdates
         /\ createIncidentUpdate(input)

SpecIdentity == InitIdentity /\ [][NextIdentity]_vars

\* The rows of a table cut down to the given columns.
Projected(table, columns) == {[k \in columns |-> r[k]] : r \in table}

\* C36: no update operation changes a row's identity or parent: a step of
\* updateStatusPage, updateComponent, updateIncident, updateMaintenanceWindow or
\* createIncidentUpdate leaves every status page's id, organization_id, slug and
\* created_at, every component's id, status_page_id and created_at, every
\* incident's and maintenance window's id, status_page_id, created_at and
\* created_by, and every existing incident update row as they were.
C36_UpdatesKeepIdentity ==
    [][/\ Projected(status_pages', {"id", "organization_id", "slug", "created_at"})
            = Projected(status_pages, {"id", "organization_id", "slug", "created_at"})
       /\ Projected(components', {"id", "status_page_id", "created_at"})
            = Projected(components, {"id", "status_page_id", "created_at"})
       /\ Projected(incidents', {"id", "status_page_id", "created_at", "created_by"})
            = Projected(incidents, {"id", "status_page_id", "created_at", "created_by"})
       /\ Projected(maintenance_windows',
                    {"id", "status_page_id", "created_at", "created_by"})
            = Projected(maintenance_windows,
                        {"id", "status_page_id", "created_at", "created_by"})
       /\ incident_updates \subseteq incident_updates'
      ]_vars

\* Every row was written after the clock moved on: the page and the component
\* renamed, the incident's status set by createIncidentUpdate, the window started.
C36_Witness ==
    /\ \A p \in status_pages : p.name = "Renamed" /\ p.updated_at > p.created_at
    /\ \A c \in components : c.name = "Renamed" /\ c.updated_at > c.created_at
    /\ \A i \in incidents : i.status = "monitoring" /\ i.updated_at > i.created_at
    /\ \A w \in maintenance_windows :
            w.status = "in_progress" /\ w.updated_at > w.created_at
    /\ \E u \in incident_updates : u.created_at > 0

====
